---- MODULE Spec2Model ----
(***************************************************************************)
(* Normalization and entity-resolution pipeline of the Boston Airbnb ETL   *)
(* (src/utilities/datapreprocessor.py).                                    *)
(*                                                                         *)
(* Data frames are sequences of records (row order is the frame's index    *)
(* order).  A text is a sequence of one-character strings.  A label that   *)
(* may contain the separator ", " (a neighbourhood, a location) is the     *)
(* sequence of its ", "-separated parts, so that joining two labels with   *)
(* ", " is the concatenation of their part sequences.                      *)
(*                                                                         *)
(* Three specifications share the module:                                  *)
(*   Spec      the listing stages (load, clean, amenities, locations,      *)
(*             hosts, finalization, CID map) called in the order of        *)
(*             preprocess_listings_data, and the script's main();          *)
(*   SpecFacts preprocess_reviews_data and preprocess_calendar_data        *)
(*             applied to a published listing natural-key map;             *)
(*   SpecText  clean_and_split_amenities applied to one input.             *)
(***************************************************************************)
EXTENDS Integers, Sequences, FiniteSets, TLC

VARIABLES
    pc,                        \* position of the listing stages
    listingsFile,              \* data/listings.csv.gz: [readable, rows]
    listingsData,              \* frame returned by load_listings_data
    listingsDF,                \* the listing frame, mutated stage by stage
    amenityDF,                 \* amenity dimension
    listingAmenitiesDF,        \* listing-amenity bridge
    locationsDF,               \* location dimension
    locationsNeighborhoodMap,  \* "neighborhood, location" -> location_id
    hostsDF,                   \* host dimension
    listingsCIDMap,            \* listing_cid -> listing_id
    error,                     \* exception raised by the last call, or NoError
    saved,                     \* artifact file name -> table written by main
    fpc,                       \* which fact stages have been called
    reviewsFile,               \* data/reviews.csv.gz: [readable, rows]
    calendarFile,              \* data/calendar.csv.gz: [readable, rows]
    reviewsDF,                 \* result of preprocess_reviews_data
    calendarDF,                \* result of preprocess_calendar_data
    ferror,                    \* stage name -> exception raised, or NoError
    tpc,                       \* position of the text normalizer call
    text,                      \* argument of clean_and_split_amenities
    tokens,                    \* its return value
    cpc,                       \* position of the classifier call
    amenityCorpus,             \* uniqueAmenities the vectorizer was fitted on
    amenityArg,                \* argument of match_amenity_to_category_tfidf
    matches,                   \* its return value
    spc,                       \* position of load_silver_data
    cleanedArtifacts,          \* table -> data/cleaned/cleaned_<table>.csv
    schemaReferences,          \* foreign keys of the silver schema
    cleanedData,               \* table -> frame returned by read_data
    silver,                    \* table -> rows of the silver table
    epc,                       \* position of run_etl_pipeline / run_with_retry
    tasks,                     \* names of the task functions, in call order
    taskIndex,                 \* index in tasks of the task being run
    attempt,                   \* loop variable of run_with_retry
    retries,                   \* argument of run_with_retry
    delay,                     \* argument of run_with_retry
    events,                    \* calls, sleeps and log lines so far
    hpc,                       \* position of fetch_html
    fetchAttempt,              \* loop variable of fetch_html
    max_retries,               \* argument of fetch_html
    backoff_factor,            \* argument of fetch_html
    fetchLog,                  \* fetches, sleeps and log lines so far
    session_state,             \* st.session_state of one browser session
    buttons,                   \* buttons rendered by the last script run
    calls,                     \* step -> times its function ran and returned
    reruns                     \* script runs of the session so far

listingVars == <<pc, listingsFile, listingsData, listingsDF, amenityDF,
                 listingAmenitiesDF, locationsDF, locationsNeighborhoodMap,
                 hostsDF, listingsCIDMap, error, saved>>
factVars == <<fpc, reviewsFile, calendarFile, reviewsDF, calendarDF, ferror>>
textVars == <<tpc, text, tokens>>
classVars == <<cpc, amenityCorpus, amenityArg, matches>>
silverVars == <<spc, cleanedArtifacts, schemaReferences, cleanedData, silver>>
orchVars == <<epc, tasks, taskIndex, attempt, retries, delay, events>>
fetchVars == <<hpc, fetchAttempt, max_retries, backoff_factor, fetchLog>>
pageVars == <<session_state, buttons, calls, reruns>>
driverVars == <<orchVars, fetchVars, pageVars>>
vars == <<listingVars, factVars, textVars, classVars, silverVars, driverVars>>

(***************************************************************************)
(* Bounds of the model.                                                    *)
(***************************************************************************)
MaxRows == 2
MaxRetries == 5
MaxFetchRetries == 4
MaxReruns == 6
MaxFactRows == 2
MaxTextLen == 5

(***************************************************************************)
(* Values shared by the stages.                                            *)
(***************************************************************************)
NaN == <<>>
NotAString == <<"<NaN>">>
NoError == "NoError"
EmptyFrame == <<>>
Ok == [stage |-> "none", exc |-> NoError]

(***************************************************************************)
(* Sequence helpers standing for the pandas / Python primitives used.      *)
(***************************************************************************)
RECURSIVE Pick(_, _)
Pick(s, I) ==
    IF s = <<>> THEN <<>>
    ELSE LET n == Len(s)
             rest == Pick(SubSeq(s, 1, n - 1), I)
         IN  IF n \in I THEN Append(rest, s[n]) ELSE rest

drop_duplicates(s) ==
    Pick(s, {i \in DOMAIN s : \A j \in 1..(i - 1) : s[j] # s[i]})

LastIndex(s, x) ==
    CHOOSE i \in DOMAIN s : s[i] = x /\ \A j \in DOMAIN s : s[j] = x => j <= i

dict_zip(ks, vs) ==
    [k \in {ks[i] : i \in DOMAIN ks} |-> vs[LastIndex(ks, k)]]

RECURSIVE Concat(_)
Concat(ss) ==
    IF ss = <<>> THEN <<>> ELSE Head(ss) \o Concat(Tail(ss))

(***************************************************************************)
(* Text Normalizer: clean_and_split_amenities.                             *)
(***************************************************************************)
LowerLetters ==
    {"a", "b", "c", "d", "e", "f", "g", "h", "i", "j", "k", "l", "m", "n",
     "o", "p", "q", "r", "s", "t", "u", "v", "w", "x", "y", "z"}
UpperLetters == {"A"}
Whitespace == {" "}
WordChars == LowerLetters \cup UpperLetters \cup {"_"}

NoAmenitiesListed ==
    <<"n", "o", " ", "a", "m", "e", "n", "i", "t", "i", "e", "s", " ",
      "l", "i", "s", "t", "e", "d">>

str_strip(t) ==
    LET keep == {i \in DOMAIN t : t[i] \notin Whitespace}
    IN  IF keep = {} THEN <<>>
        ELSE SubSeq(t, CHOOSE i \in keep : \A j \in keep : i <= j,
                       CHOOSE i \in keep : \A j \in keep : j <= i)

str_lower(t) == [i \in DOMAIN t |-> IF t[i] = "A" THEN "a" ELSE t[i]]

IsBracketOrQuote(c) == c \in {"[", "]", "\""}

remove_brackets_and_quotes(t) == SelectSeq(t, LAMBDA c : ~IsBracketOrQuote(c))

IsKeptByPunctuationFilter(c) == c \in WordChars \/ c \in Whitespace \/ c = ","

remove_punctuation(t) == SelectSeq(t, IsKeptByPunctuationFilter)

WordBoundaryBefore(t, i) == i = 1 \/ t[i - 1] \notin WordChars
WordBoundaryAfter(t, i) == i = Len(t) \/ t[i + 1] \notin WordChars

IsAndAt(t, i) ==
    /\ i + 2 <= Len(t)
    /\ t[i] = "a" /\ t[i + 1] = "n" /\ t[i + 2] = "d"
    /\ WordBoundaryBefore(t, i)
    /\ WordBoundaryAfter(t, i + 2)

RECURSIVE ReplaceAndFrom(_, _)
ReplaceAndFrom(t, i) ==
    IF i > Len(t) THEN <<>>
    ELSE IF IsAndAt(t, i) THEN <<",">> \o ReplaceAndFrom(t, i + 3)
    ELSE <<t[i]>> \o ReplaceAndFrom(t, i + 1)

replace_and_with_comma(t) == ReplaceAndFrom(t, 1)

RECURSIVE SkipSpaces(_, _)
SkipSpaces(t, i) ==
    IF i <= Len(t) /\ t[i] \in Whitespace THEN SkipSpaces(t, i + 1) ELSE i

RECURSIVE CommaSpacingFrom(_, _)
CommaSpacingFrom(t, i) ==
    IF i > Len(t) THEN <<>>
    ELSE LET j == SkipSpaces(t, i)
         IN  IF j <= Len(t) /\ t[j] = ","
             THEN <<",", " ">> \o CommaSpacingFrom(t, SkipSpaces(t, j + 1))
             ELSE <<t[i]>> \o CommaSpacingFrom(t, i + 1)

normalize_comma_spacing(t) == CommaSpacingFrom(t, 1)

RECURSIVE CollapseFrom(_, _)
CollapseFrom(t, i) ==
    IF i > Len(t) THEN <<>>
    ELSE IF t[i] \in Whitespace
         THEN <<" ">> \o CollapseFrom(t, SkipSpaces(t, i))
         ELSE <<t[i]>> \o CollapseFrom(t, i + 1)

normalize_whitespace(t) == str_strip(CollapseFrom(t, 1))

RECURSIVE SplitFrom(_, _, _)
SplitFrom(t, i, cur) ==
    IF i > Len(t) THEN <<cur>>
    ELSE IF t[i] = "," THEN <<cur>> \o SplitFrom(t, i + 1, <<>>)
    ELSE SplitFrom(t, i + 1, Append(cur, t[i]))

str_split_comma(t) == SplitFrom(t, 1, <<>>)

IsKeptToken(a) == str_strip(a) # <<>>

strip_and_keep_tokens(parts) ==
    LET kept == SelectSeq(parts, IsKeptToken)
    IN  [i \in DOMAIN kept |-> str_strip(kept[i])]

normalized_text(t) ==
    normalize_whitespace(
        normalize_comma_spacing(
            replace_and_with_comma(
                remove_punctuation(
                    remove_brackets_and_quotes(str_lower(t))))))

clean_and_split_amenities(t) ==
    IF t = NotAString \/ str_strip(t) = <<>> THEN <<NoAmenitiesListed>>
    ELSE LET n == normalized_text(t)
         IN  IF n = <<>> THEN <<NoAmenitiesListed>>
             ELSE strip_and_keep_tokens(str_split_comma(n))

(***************************************************************************)
(* File-read boundary.  A file is [readable, rows]; a frame read from it   *)
(* is [has_columns, rows]: the frame of a failed read has no columns.      *)
(***************************************************************************)
read_data(file) ==
    IF file.readable
    THEN [has_columns |-> TRUE, rows |-> file.rows]
    ELSE [has_columns |-> FALSE, rows |-> <<>>]

Raise(exc) == [raised |-> exc, value |-> <<>>]
Return(v) == [raised |-> NoError, value |-> v]

(***************************************************************************)
(* Surrogate key bases.                                                    *)
(***************************************************************************)
ListingIdBase == 1000
HostIdBase == 1000
ReviewIdBase == 1000
LocationIdBase == 1

(***************************************************************************)
(* load_listings_data and process_listings.                                *)
(***************************************************************************)
load_listings_data_params == 0

load_listings_data(file) ==
    LET data == read_data(file)
        indexed == [i \in DOMAIN data.rows |->
                       [listing_id |-> (i - 1) + ListingIdBase] @@ data.rows[i]]
    IN  IF ~data.has_columns THEN Raise("KeyError")
        ELSE Return([i \in DOMAIN indexed |->
                        [indexed[i] EXCEPT !.id = ToString(@)]])

call_load_listings_data(args, file) ==
    IF Len(args) # load_listings_data_params THEN Raise("TypeError")
    ELSE load_listings_data(file)

process_listings(data) ==
    [i \in DOMAIN data |->
        [listing_id |-> data[i].listing_id,
         listing_cid |-> data[i].id,
         host_id |-> data[i].host_id,
         neighbourhood_cleansed |-> data[i].neighbourhood_cleansed,
         amenities |-> clean_and_split_amenities(data[i].amenities)]]

(***************************************************************************)
(* Entity Resolver (Locations): process_locations.                         *)
(***************************************************************************)
Unknown == <<"Unknown">>
NotSpecified == <<"Not Specified">>
BostonMA == <<"Boston", "MA">>

fill_host_location(nb0, loc0) ==
    LET nb1 == IF loc0 = NaN /\ nb0 = NaN THEN Unknown ELSE nb0
        nb2 == IF nb1 = NaN THEN NotSpecified ELSE nb1
        loc1 == IF loc0 = NaN /\ nb2 = Unknown THEN Unknown ELSE loc0
        loc2 == IF loc1 = NaN THEN BostonMA ELSE loc1
    IN  [neighbourhood |-> nb2, location |-> loc2]

hostsSubset(data) ==
    [i \in DOMAIN data |->
        fill_host_location(data[i].host_neighbourhood, data[i].host_location)]

fill_listing_location(df) ==
    [i \in DOMAIN df |->
        [neighbourhood_cleansed |->
             IF df[i].neighbourhood_cleansed = NaN THEN NotSpecified
             ELSE df[i].neighbourhood_cleansed,
         location |-> BostonMA] @@ df[i]]

listingsLocationDF(df) ==
    drop_duplicates([i \in DOMAIN df |->
        [neighbourhood |-> df[i].neighbourhood_cleansed,
         location |-> df[i].location]])

build_location_table(data, df) ==
    LET pairs == drop_duplicates(
                     drop_duplicates(hostsSubset(data)) \o listingsLocationDF(df))
    IN  [i \in DOMAIN pairs |->
            [location_id |-> (i - 1) + LocationIdBase,
             neighborhood |-> pairs[i].neighbourhood,
             location |-> pairs[i].location]]

location_key(neighborhood, location) == neighborhood \o location

build_location_map_from_index(locs) ==
    dict_zip([i \in DOMAIN locs |-> location_key(locs[i].neighborhood, locs[i].location)],
             [i \in DOMAIN locs |-> i - 1])

build_location_map(locs) ==
    dict_zip([i \in DOMAIN locs |-> location_key(locs[i].neighborhood, locs[i].location)],
             [i \in DOMAIN locs |-> locs[i].location_id])

process_locations(data, df) ==
    LET filled == fill_listing_location(df)
        locs == build_location_table(data, filled)
    IN  [listingsDF |-> filled,
         locationsDF |-> locs,
         locationsNeighborhoodMap |-> build_location_map(locs)]

(***************************************************************************)
(* Entity Resolver (Hosts): process_hosts.                                 *)
(***************************************************************************)
NumericCells == {"7", "8"}

NotANumber == "NaN"

to_numeric(cell) == IF cell \in NumericCells THEN cell ELSE NotANumber

hosts_fill(data) ==
    [i \in DOMAIN data |->
        fill_host_location(data[i].host_neighbourhood, data[i].host_location)
        @@ [host_id |-> data[i].host_id]]

host_location_keys(data) ==
    LET h == hosts_fill(data)
    IN  [i \in DOMAIN h |-> location_key(h[i].neighbourhood, h[i].location)]

hosts_with_location(data, map) ==
    LET h == hosts_fill(data)
        k == host_location_keys(data)
    IN  [i \in DOMAIN h |->
            [host_id |-> to_numeric(h[i].host_id), location_id |-> map[k[i]]]]

IsNumericHost(h) == h.host_id # NotANumber

reindex_hosts_before_dedup(hs) ==
    LET kept == SelectSeq(hs, IsNumericHost)
    IN  drop_duplicates([i \in DOMAIN kept |->
            [host_id |-> (i - 1) + HostIdBase,
             host_cid |-> kept[i].host_id,
             location_id |-> kept[i].location_id]])

reindex_hosts(hs) ==
    LET kept == SelectSeq(hs, IsNumericHost)
        cids == [i \in DOMAIN kept |->
                    [host_cid |-> kept[i].host_id,
                     location_id |-> kept[i].location_id]]
        dedup == drop_duplicates(cids)
    IN  drop_duplicates([i \in DOMAIN dedup |->
            [host_id |-> (i - 1) + HostIdBase] @@ dedup[i]])

process_hosts_with_default(data, map) ==
    Return(reindex_hosts(
        [i \in DOMAIN data |->
            [host_id |-> to_numeric(data[i].host_id),
             location_id |-> IF host_location_keys(data)[i] \in DOMAIN map
                             THEN map[host_location_keys(data)[i]]
                             ELSE 0]]))

process_hosts(data, map) ==
    IF \E i \in DOMAIN data : host_location_keys(data)[i] \notin DOMAIN map
    THEN Raise("KeyError")
    ELSE Return(reindex_hosts(hosts_with_location(data, map)))

(***************************************************************************)
(* Listing Finalizer: final_process_listings.                              *)
(***************************************************************************)
listing_location_key(row) == location_key(row.neighbourhood_cleansed, row.location)

build_hostcidMap(hosts) ==
    dict_zip([i \in DOMAIN hosts |-> hosts[i].host_cid],
             [i \in DOMAIN hosts |-> hosts[i].host_id])

host_resolves(hostcidMap, cid) == cid \in DOMAIN hostcidMap

resolved_host_id(hostcidMap, cid) == hostcidMap[cid]

RECURSIVE str_join(_, _)
str_join(sep, parts) ==
    IF parts = <<>> THEN <<>>
    ELSE IF Len(parts) = 1 THEN parts[1]
    ELSE parts[1] \o sep \o str_join(sep, Tail(parts))

ListColumns == {"amenity_categories"}

has_list_column(df) ==
    \E i \in DOMAIN df : DOMAIN df[i] \cap ListColumns # {}

final_dedup_key(row) == row.listing_id

drop_duplicates_by_listing(df) ==
    Pick(df, {i \in DOMAIN df :
                 \A j \in 1..(i - 1) : final_dedup_key(df[j]) # final_dedup_key(df[i])})

final_schema(df) ==
    [i \in DOMAIN df |->
        [listing_id |-> df[i].listing_id,
         listing_cid |-> df[i].listing_cid,
         host_id |-> df[i].host_id,
         location_id |-> df[i].location_id,
         amenities |-> df[i].amenities]]

final_process_listings(df0, hosts, map) ==
    LET df == fill_listing_location(df0)
        hostcidMap == build_hostcidMap(hosts)
        mapped == [i \in DOMAIN df |->
                     [df[i] EXCEPT
                        !.host_id = resolved_host_id(hostcidMap, df[i].host_id),
                        !.amenities = str_join(<<",">>, df[i].amenities)]
                     @@ [location_id |-> map[listing_location_key(df[i])]]]
    IN  IF \E i \in DOMAIN df : listing_location_key(df[i]) \notin DOMAIN map
        THEN Raise("KeyError")
        ELSE IF \E i \in DOMAIN df : ~host_resolves(hostcidMap, df[i].host_id)
        THEN Raise("ValueError")
        ELSE IF has_list_column(df)
        THEN Raise("TypeError")
        ELSE Return(final_schema(drop_duplicates_by_listing(drop_duplicates(mapped))))

build_listingsCIDMap(df) ==
    dict_zip([i \in DOMAIN df |-> df[i].listing_cid],
             [i \in DOMAIN df |-> df[i].listing_id])

(***************************************************************************)
(* Category Classifier: the TfidfVectorizer fitted by process_amenities    *)
(* and match_amenity_to_category_tfidf.  Words are strings; a vector is a  *)
(* function from words to tf * idf, with idf = ln((1 + n) / (1 + df)) + 1  *)
(* in thousandths.  The L2 normalisation of the vectorizer is a positive   *)
(* scaling of each vector and does not change a cosine similarity, so the  *)
(* similarity is computed on the unscaled weights.                         *)
(***************************************************************************)
categoryLabels ==
    <<"TV", "Streaming", "Kitchen", "Air Conditioning", "Heating", "View",
      "Parking", "Internet", "Toiletries", "Kitchen Appliances",
      "Other Appliances", "Essentials", "Safety Equipemnt", "Bedding",
      "Dining", "Laundry", "Gym", "Entertainment", "Pool", "Fireplace",
      "Baby Friendly", "Pet Friendly", "Smoking", "Security",
      "Outdoor Space", "Accessibility", "Miscellaneous", "No Amenities">>

\* The words of each category text ' '.join(keywords), as the vectorizer's
\* analyzer (lower-case, token pattern \b\w\w+\b) extracts them.
categoryTokens ==
    <<
      <<"hdtv", "tv", "screen", "television", "smart", "tv", "flat",
        "screen", "oled", "led">>,
      <<"netflix", "amazon", "prime", "fire", "tv", "apple", "tv",
        "roku", "hulu", "disney", "hbo", "streaming", "service",
        "streaming">>,
      <<"oven", "stove", "refrigerator", "kitchen", "cooktop">>,
      <<"air", "conditioning", "ac", "central", "air", "split", "type",
        "ductless">>,
      <<"heating", "heater">>,
      <<"beach", "view", "lake", "view", "mountain", "view", "city",
        "skyline", "view", "garden", "view", "view">>,
      <<"parking", "garage", "driveway", "carport">>,
      <<"wifi", "ethernet", "internet">>,
      <<"soap", "shampoo", "conditioner", "body", "wash", "toiletries">>,
      <<"dishwasher", "kettle", "coffee", "maker", "microwave",
        "toaster">>,
      <<"iron", "hair", "dryer">>,
      <<"towels", "linens", "toilet", "paper", "paper", "towels",
        "kitchen", "essentials">>,
      <<"smoke", "alarm", "carbon", "monoxide", "alarm", "fire",
        "extinguisher", "first", "aid", "kit">>,
      <<"sheets", "pillows", "blankets", "comforter", "bedding">>,
      <<"dining", "table", "dining", "area", "bar", "stools", "kitchen",
        "island", "cutlery", "dishes", "glassware", "silverware",
        "pots", "and", "pans">>,
      <<"washer", "dryer", "laundromat", "laundry">>,
      <<"gym", "exercise", "equipment", "weights", "treadmill">>,
      <<"board", "games", "arcade", "pool", "table", "ping", "pong",
        "dvd", "player", "game", "console">>,
      <<"pool", "lap", "pool", "indoor", "pool", "outdoor", "pool",
        "hot", "tub">>,
      <<"fireplace">>,
      <<"crib", "high", "chair", "baby", "monitor", "booster", "seat",
        "changing", "table", "baby", "friendly">>,
      <<"pets", "allowed", "pet", "friendly", "cat", "dog", "pet">>,
      <<"smoking", "allowed", "smoking">>,
      <<"security", "system", "doorman", "safe", "lockbox", "keypad">>,
      <<"balcony", "terrace", "patio", "garden", "deck", "outdoor",
        "furniture", "outdoor", "space">>,
      <<"wheelchair", "accessible", "elevator", "step", "free",
        "access", "grab", "bars">>,
      <<"miscellaneous", "other", "various", "amenities">>,
      <<"no", "amenities", "listed">>
    >>

Range(s) == {s[i] : i \in DOMAIN s}

RECURSIVE JoinChars(_)
JoinChars(cs) ==
    IF cs = <<>> THEN "" ELSE Head(cs) \o JoinChars(Tail(cs))

RECURSIVE AnalyzeFrom(_, _, _)
AnalyzeFrom(t, i, cur) ==
    LET word == IF Len(cur) >= 2 THEN <<JoinChars(cur)>> ELSE <<>>
    IN  IF i > Len(t) THEN word
        ELSE IF t[i] \in WordChars THEN AnalyzeFrom(t, i + 1, Append(cur, t[i]))
        ELSE word \o AnalyzeFrom(t, i + 1, <<>>)

tfidf_analyze(t) == AnalyzeFrom(str_lower(t), 1, <<>>)

CategoryVocabulary == UNION {Range(categoryTokens[i]) : i \in DOMAIN categoryTokens}

categoryDocumentFrequency ==
    [w \in CategoryVocabulary |->
        Cardinality({i \in DOMAIN categoryTokens : w \in Range(categoryTokens[i])})]

document_frequency(w, uniqueAmenities) ==
    (IF w \in CategoryVocabulary THEN categoryDocumentFrequency[w] ELSE 0)
    + Cardinality({a \in uniqueAmenities : w \in Range(tfidf_analyze(a))})

\* ln(k) in thousandths, k = 1..40.
LnTimes1000 == <<0, 693, 1099, 1386, 1609, 1792, 1946, 2079, 2197, 2303,
    2398, 2485, 2565, 2639, 2708, 2773, 2833, 2890, 2944, 2996, 3045,
    3091, 3135, 3178, 3219, 3258, 3296, 3332, 3367, 3401, 3434, 3466,
    3497, 3526, 3555, 3584, 3611, 3638, 3664, 3689>>

IdfScale == 1000

idf(w, uniqueAmenities) ==
    LnTimes1000[1 + Len(categoryTokens) + Cardinality(uniqueAmenities)]
    - LnTimes1000[1 + document_frequency(w, uniqueAmenities)] + IdfScale

term_count(words, w) == Cardinality({i \in DOMAIN words : words[i] = w})

in_vocabulary(w, uniqueAmenities) ==
    \/ w \in CategoryVocabulary
    \/ \E a \in uniqueAmenities : w \in Range(tfidf_analyze(a))

tfidf_transform(words, uniqueAmenities) ==
    [w \in {x \in Range(words) : in_vocabulary(x, uniqueAmenities)} |->
        term_count(words, w) * idf(w, uniqueAmenities)]

fit_category_vectors(uniqueAmenities) ==
    [i \in DOMAIN categoryTokens |-> tfidf_transform(categoryTokens[i], uniqueAmenities)]

fit_amenity_vectors(uniqueAmenities) ==
    [a \in uniqueAmenities |-> tfidf_transform(tfidf_analyze(a), uniqueAmenities)]

RECURSIVE SumOver(_, _)
SumOver(f, S) ==
    IF S = {} THEN 0
    ELSE LET x == CHOOSE y \in S : TRUE
         IN  f[x] + SumOver(f, S \ {x})

dot_product(v, c) ==
    LET common == DOMAIN v \cap DOMAIN c
    IN  SumOver([w \in common |-> v[w] * c[w]], common)

RECURSIVE IsqrtBetween(_, _, _)
IsqrtBetween(x, lo, hi) ==
    IF lo >= hi THEN lo
    ELSE LET mid == (lo + hi + 1) \div 2
         IN  IF mid * mid <= x THEN IsqrtBetween(x, mid, hi)
             ELSE IsqrtBetween(x, lo, mid - 1)

l2_norm(v) == IsqrtBetween(SumOver([w \in DOMAIN v |-> v[w] * v[w]], DOMAIN v), 0, 46000)

ThresholdInverse == 5

similarity_is_positive(v, c) == dot_product(v, c) > 0

\* cosine_similarity(v, c) > 0.2; the weights are non-negative, so a
\* similarity above the threshold has a positive dot product.
similarity_exceeds_threshold(v, c) ==
    /\ dot_product(v, c) > 0
    /\ ThresholdInverse * dot_product(v, c) > l2_norm(v) * l2_norm(c)

nnz(v) == Cardinality({w \in DOMAIN v : v[w] # 0})

match_amenity_to_category_tfidf(toVector, amenityStr, catVectors, labels) ==
    LET hits == {i \in DOMAIN labels :
                    similarity_exceeds_threshold(toVector[amenityStr], catVectors[i])}
    IN  IF amenityStr \notin DOMAIN toVector THEN <<"Miscellaneous">>
        ELSE IF nnz(toVector[amenityStr]) = 0 THEN <<"Miscellaneous">>
        ELSE IF hits # {} THEN Pick(labels, hits)
        ELSE <<"Miscellaneous">>

uniqueAmenities(df) == UNION {Range(df[i].amenities) : i \in DOMAIN df}

classify_amenity(df, amenity) ==
    match_amenity_to_category_tfidf(fit_amenity_vectors(uniqueAmenities(df)), amenity,
                                    fit_category_vectors(uniqueAmenities(df)),
                                    categoryLabels)

listing_category_set_first_token(df, i) ==
    Range(classify_amenity(df, df[i].amenities[1]))

listing_category_set(df, i) ==
    UNION {Range(classify_amenity(df, df[i].amenities[k])) : k \in DOMAIN df[i].amenities}

Orderings(S) ==
    {f \in [1..Cardinality(S) -> S] : \A i, j \in DOMAIN f : i # j => f[i] # f[j]}

RECURSIVE listing_category_sets(_, _)
listing_category_sets(df, n) ==
    IF n = 0 THEN <<>>
    ELSE Append(listing_category_sets(df, n - 1), listing_category_set(df, n))

OrdersOf(sets) ==
    {ord \in [DOMAIN sets -> UNION {Orderings(sets[i]) : i \in DOMAIN sets}] :
        \A i \in DOMAIN sets : Range(ord[i]) = sets[i]}

CategoryOrders(df) == OrdersOf(listing_category_sets(df, Len(df)))

build_amenityDF ==
    [i \in DOMAIN categoryLabels |->
        [amenity_id |-> i, amenity_name |-> categoryLabels[i]]]

amenityToId ==
    dict_zip([i \in DOMAIN build_amenityDF |-> build_amenityDF[i].amenity_name],
             [i \in DOMAIN build_amenityDF |-> build_amenityDF[i].amenity_id])

build_listingAmenities_first_category(df) ==
    [i \in DOMAIN df |->
        [listing_id |-> df[i].listing_id,
         amenity_id |-> amenityToId[df[i].amenity_categories[1]]]]

build_listingAmenities_per_token(df) ==
    Concat([i \in DOMAIN df |->
        Concat([k \in DOMAIN df[i].amenities |->
            [c \in DOMAIN classify_amenity(df, df[i].amenities[k]) |->
                [listing_id |-> df[i].listing_id,
                 amenity_id |-> amenityToId[classify_amenity(df, df[i].amenities[k])[c]]]]])])

build_listingAmenities(df) ==
    Concat([i \in DOMAIN df |->
        [k \in DOMAIN df[i].amenity_categories |->
            [listing_id |-> df[i].listing_id,
             amenity_id |-> amenityToId[df[i].amenity_categories[k]]]]])

process_amenities(df, ord) ==
    LET categorized == [i \in DOMAIN df |-> df[i] @@ [amenity_categories |-> ord[i]]]
    IN  [listingsDF |-> categorized,
         amenityDF |-> build_amenityDF,
         listingAmenitiesDF |-> build_listingAmenities(categorized)]

(***************************************************************************)
(* process_hosts_and_locations and preprocess_listings_data.               *)
(***************************************************************************)
finalize_with_hosts(loc, hosts) ==
    IF hosts.raised # NoError THEN Raise(hosts.raised)
    ELSE final_process_listings(loc.listingsDF, hosts.value,
                                loc.locationsNeighborhoodMap)

hosts_and_locations_return(loc, hosts, fin) ==
    IF fin.raised # NoError THEN Raise(fin.raised)
    ELSE Return(<<fin.value, hosts.value, loc.locationsDF,
                  build_listingsCIDMap(fin.value)>>)

resolve_hosts_and_finalize(data, loc, hosts) ==
    hosts_and_locations_return(loc, hosts, finalize_with_hosts(loc, hosts))

resolve_hosts(data, loc) ==
    resolve_hosts_and_finalize(data, loc,
        process_hosts(data, loc.locationsNeighborhoodMap))

process_hosts_and_locations(data, df) ==
    resolve_hosts(data, process_locations(data, df))

listings_data_return(am, hl) ==
    IF hl.raised # NoError THEN Raise(hl.raised)
    ELSE Return([listingsDF |-> hl.value[3],
                 hostsDF |-> hl.value[1],
                 locationsDF |-> hl.value[2],
                 amenityDF |-> am.amenityDF,
                 listingAmenitiesDF |-> am.listingAmenitiesDF,
                 listingsCIDMap |-> hl.value[4]])

categorize_and_resolve(data, am) ==
    listings_data_return(am, process_hosts_and_locations(data, am.listingsDF))

preprocess_loaded_listings(loaded, ord) ==
    IF loaded.raised # NoError THEN Raise(loaded.raised)
    ELSE categorize_and_resolve(loaded.value,
             process_amenities(process_listings(loaded.value), ord))

preprocess_listings_data(file, ord) ==
    preprocess_loaded_listings(
        call_load_listings_data(<<"data/listings.csv.gz">>, file), ord)

(***************************************************************************)
(* Cross-Entity ID Remapper: preprocess_reviews_data and                   *)
(* preprocess_calendar_data.  A numeric source column that holds a missing *)
(* cell (NumNaN) is read as float64, otherwise as int64.                   *)
(***************************************************************************)
NumNaN == -1

column_is_float(rows) == \E i \in DOMAIN rows : rows[i].listing_id = NumNaN

astype_str(v, isFloat) ==
    IF v = NumNaN THEN "nan"
    ELSE IF isFloat THEN ToString(v) \o ".0"
    ELSE ToString(v)

replace_dot_zero(s) == IF s = ".0" THEN "" ELSE s

review_listing_cid(rows, i) ==
    replace_dot_zero(astype_str(rows[i].listing_id, column_is_float(rows)))

review_resolves(map, cid) == cid \in DOMAIN map

drop_duplicate_reviews_by_listing(rows) ==
    Pick(rows, {i \in DOMAIN rows :
                   \A j \in 1..(i - 1) : rows[j].listing_id # rows[i].listing_id})

drop_duplicate_reviews(rows) == drop_duplicates(rows)

\* the variant that numbers the source rows before any row is dropped
preprocess_reviews_data_enumerating_first(file, map) ==
    LET data == read_data(file)
        rows == data.rows
        kept == {i \in DOMAIN rows : review_resolves(map, review_listing_cid(rows, i))}
        mapped == [i \in DOMAIN rows |->
                     [review_id |-> (i - 1) + ReviewIdBase,
                      review_cid |-> ToString(rows[i].id),
                      listing_id |-> IF i \in kept
                                     THEN map[review_listing_cid(rows, i)]
                                     ELSE NumNaN]]
    IN  IF ~data.has_columns THEN Raise("KeyError")
        ELSE Return(drop_duplicates(Pick(mapped, kept)))

enumerate_reviews(rows) ==
    [i \in DOMAIN rows |-> [review_id |-> (i - 1) + ReviewIdBase] @@ rows[i]]

preprocess_reviews_data(file, map) ==
    LET data == read_data(file)
        rows == data.rows
        kept == {i \in DOMAIN rows : review_resolves(map, review_listing_cid(rows, i))}
        mapped == [i \in DOMAIN rows |->
                     [review_cid |-> ToString(rows[i].id),
                      listing_id |-> IF i \in kept
                                     THEN map[review_listing_cid(rows, i)]
                                     ELSE NumNaN]]
    IN  IF ~data.has_columns THEN Raise("KeyError")
        ELSE Return(enumerate_reviews(drop_duplicate_reviews(Pick(mapped, kept))))

calendar_listing_cid(rows, i) ==
    astype_str(rows[i].listing_id, column_is_float(rows))

NaNDate == ""

preprocess_calendar_data(file, map) ==
    LET data == read_data(file)
        rows == data.rows
        mapped == [i \in DOMAIN rows |->
                     [listing_id |-> map[calendar_listing_cid(rows, i)],
                      date |-> rows[i].date]]
        dated == {i \in DOMAIN rows : rows[i].date # NaNDate}
    IN  IF ~data.has_columns THEN Raise("KeyError")
        ELSE IF \E i \in DOMAIN rows : calendar_listing_cid(rows, i) \notin DOMAIN map
        THEN Raise("ValueError")
        ELSE Return(Pick(mapped, dated))

(***************************************************************************)
(* main: the script's entry point.                                         *)
(***************************************************************************)
save_all(p, r, c) ==
    IF c.raised # NoError THEN Raise(c.raised)
    ELSE Return([cleaned_listings |-> p.listingsDF,
                 cleaned_hosts |-> p.hostsDF,
                 cleaned_locations |-> p.locationsDF,
                 cleaned_amenities |-> p.amenityDF,
                 cleaned_listing_amenities |-> p.listingAmenitiesDF,
                 cleaned_reviews |-> r.value,
                 cleaned_availability |-> c.value])

main_after_reviews(p, r, cf) ==
    IF r.raised # NoError THEN Raise(r.raised)
    ELSE save_all(p, r, preprocess_calendar_data(cf, p.listingsCIDMap))

main_after_listings(p, rf, cf) ==
    IF p.raised # NoError THEN Raise(p.raised)
    ELSE main_after_reviews(p.value,
             preprocess_reviews_data(rf, p.value.listingsCIDMap), cf)

main(lf, rf, cf, ord) ==
    main_after_listings(preprocess_listings_data(lf, ord), rf, cf)

(***************************************************************************)
(* SpecText: one call of clean_and_split_amenities.                        *)
(***************************************************************************)
Alphabet == {"a", "n", "d", "A", "_", " ", ",", "[", "!"}

TextInputs ==
    {NotAString} \cup UNION {[1..n -> Alphabet] : n \in 0..MaxTextLen}

NoFile == [readable |-> FALSE, rows |-> <<>>]

IdleListing ==
    /\ pc = "idle" /\ listingsFile = NoFile
    /\ listingsData = <<>> /\ listingsDF = <<>> /\ amenityDF = <<>>
    /\ listingAmenitiesDF = <<>> /\ locationsDF = <<>>
    /\ locationsNeighborhoodMap = <<>> /\ hostsDF = <<>>
    /\ listingsCIDMap = <<>> /\ error = Ok /\ saved = <<>>

IdleFacts ==
    /\ fpc = {} /\ reviewsFile = NoFile /\ calendarFile = NoFile
    /\ reviewsDF = <<>> /\ calendarDF = <<>>
    /\ ferror = [reviews |-> NoError, calendar |-> NoError]

IdleText == tpc = "idle" /\ text = <<>> /\ tokens = <<>>

IdleClass ==
    /\ cpc = "idle" /\ amenityCorpus = {} /\ amenityArg = <<>> /\ matches = <<>>

IdleSilver ==
    /\ spc = "idle" /\ cleanedArtifacts = <<>> /\ schemaReferences = {}
    /\ cleanedData = <<>> /\ silver = <<>>

IdleOrch ==
    /\ epc = "idle" /\ tasks = <<>> /\ taskIndex = 0 /\ attempt = 0
    /\ retries = 0 /\ delay = 0 /\ events = <<>>

IdleFetch ==
    /\ hpc = "idle" /\ fetchAttempt = 0 /\ max_retries = 0
    /\ backoff_factor = 0 /\ fetchLog = <<>>

IdlePage ==
    /\ session_state = <<>> /\ buttons = {} /\ calls = <<>> /\ reruns = 0

IdleDrivers == IdleOrch /\ IdleFetch /\ IdlePage

InitText ==
    /\ IdleListing /\ IdleFacts /\ IdleClass /\ IdleSilver /\ IdleDrivers
    /\ tpc = "start" /\ text \in TextInputs /\ tokens = <<>>

CleanAndSplitAmenities ==
    /\ tpc = "start"
    /\ tokens' = clean_and_split_amenities(text)
    /\ tpc' = "returned"
    /\ UNCHANGED <<text, listingVars, factVars, classVars, silverVars, driverVars>>

NextText == CleanAndSplitAmenities

SpecText == InitText /\ [][NextText]_vars

(***************************************************************************)
(* SpecClassify: one call of match_amenity_to_category_tfidf, with the     *)
(* vectorizer fitted on the taxonomy and a set of amenity tokens.  A token *)
(* outside that set has no vector.                                         *)
(***************************************************************************)
Wifi == <<"w", "i", "f", "i">>
AirConditioning ==
    <<"a", "i", "r", " ", "c", "o", "n", "d", "i", "t", "i", "o", "n", "i", "n", "g">>
SingleLetter == <<"a">>
UnknownWord == <<"z", "z">>
Amenities ==
    <<"a", "m", "e", "n", "i", "t", "i", "e", "s">>
PoolTable ==
    <<"p", "o", "o", "l", " ", "t", "a", "b", "l", "e">>
GardenView ==
    <<"g", "a", "r", "d", "e", "n", " ", "v", "i", "e", "w">>

AmenityTokens ==
    {NoAmenitiesListed, Wifi, AirConditioning, SingleLetter, UnknownWord, Amenities, PoolTable, GardenView}

MaxCorpus == 2

AmenityCorpora == {c \in SUBSET AmenityTokens : Cardinality(c) <= MaxCorpus}

InitClassify ==
    /\ IdleListing /\ IdleFacts /\ IdleText /\ IdleSilver /\ IdleDrivers
    /\ cpc = "start"
    /\ amenityCorpus \in AmenityCorpora
    /\ amenityArg \in AmenityTokens
    /\ matches = <<>>

MatchAmenityToCategory ==
    /\ cpc = "start"
    /\ matches' = match_amenity_to_category_tfidf(
                       fit_amenity_vectors(amenityCorpus), amenityArg,
                       fit_category_vectors(amenityCorpus), categoryLabels)
    /\ cpc' = "returned"
    /\ UNCHANGED <<amenityCorpus, amenityArg, listingVars, factVars, textVars, silverVars, driverVars>>

NextClassify == MatchAmenityToCategory

SpecClassify == InitClassify /\ [][NextClassify]_vars

(***************************************************************************)
(* Spec: the listing stages.  From "start" either the script's main() runs *)
(* as written, or the stage functions are called one by one with their     *)
(* declared signatures, in the order of preprocess_listings_data and       *)
(* process_hosts_and_locations; process_amenities may be skipped when      *)
(* process_hosts_and_locations is called on the cleaned frame directly.    *)
(***************************************************************************)
ListingIds == {1, 2}
HostIdCells == {"7", "8", "x"}
HostNeighbourhoods == {NaN, Unknown, <<"Allston">>, <<"Allston", "Boston">>}
HostLocations == {NaN, <<"MA">>}
ListingNeighbourhoods == {NaN, <<"Allston">>}
ListingAmenityTexts == {<<"a">>}

RawListingRows ==
    [id : ListingIds, host_id : HostIdCells,
     host_neighbourhood : HostNeighbourhoods, host_location : HostLocations,
     neighbourhood_cleansed : ListingNeighbourhoods,
     amenities : ListingAmenityTexts]

ListingFiles ==
    {NoFile} \cup
    {[readable |-> TRUE, rows |-> rows] :
        rows \in UNION {[1..n -> RawListingRows] : n \in 1..MaxRows}}

Init ==
    /\ pc = "start"
    /\ listingsFile \in ListingFiles
    /\ listingsData = <<>> /\ listingsDF = <<>> /\ amenityDF = <<>>
    /\ listingAmenitiesDF = <<>> /\ locationsDF = <<>>
    /\ locationsNeighborhoodMap = <<>> /\ hostsDF = <<>>
    /\ listingsCIDMap = <<>> /\ error = Ok /\ saved = <<>>
    /\ IdleFacts /\ IdleText /\ IdleClass /\ IdleSilver /\ IdleDrivers

MainCategoryOrders ==
    LET loaded == call_load_listings_data(<<"data/listings.csv.gz">>, listingsFile)
    IN  IF loaded.raised # NoError THEN {<<>>}
        ELSE CategoryOrders(process_listings(loaded.value))

Main ==
    /\ pc = "start"
    /\ \E ord \in MainCategoryOrders :
          LET r == main(listingsFile, reviewsFile, calendarFile, ord)
          IN  IF r.raised # NoError
              THEN /\ pc' = "main_raised"
                   /\ error' = [stage |-> "main", exc |-> r.raised]
                   /\ saved' = saved
              ELSE /\ pc' = "main_done"
                   /\ error' = error
                   /\ saved' = r.value
    /\ UNCHANGED <<listingsFile, listingsData, listingsDF, amenityDF,
                   listingAmenitiesDF, locationsDF, locationsNeighborhoodMap,
                   hostsDF, listingsCIDMap, factVars, textVars, classVars, silverVars, driverVars>>

LoadListingsData ==
    /\ pc = "start"
    /\ LET r == call_load_listings_data(<<>>, listingsFile)
       IN  IF r.raised # NoError
           THEN /\ pc' = "raised"
                /\ error' = [stage |-> "load_listings_data", exc |-> r.raised]
                /\ listingsData' = listingsData
           ELSE /\ pc' = "loaded"
                /\ error' = error
                /\ listingsData' = r.value
    /\ UNCHANGED <<listingsFile, listingsDF, amenityDF, listingAmenitiesDF,
                   locationsDF, locationsNeighborhoodMap, hostsDF,
                   listingsCIDMap, saved, factVars, textVars, classVars, silverVars, driverVars>>

ProcessListings ==
    /\ pc = "loaded"
    /\ listingsDF' = process_listings(listingsData)
    /\ pc' = "cleaned"
    /\ UNCHANGED <<listingsFile, listingsData, amenityDF, listingAmenitiesDF,
                   locationsDF, locationsNeighborhoodMap, hostsDF,
                   listingsCIDMap, error, saved, factVars, textVars, classVars, silverVars, driverVars>>

ProcessAmenities ==
    /\ pc = "cleaned"
    /\ \E ord \in CategoryOrders(listingsDF) :
          LET r == process_amenities(listingsDF, ord)
          IN  /\ listingsDF' = r.listingsDF
              /\ amenityDF' = r.amenityDF
              /\ listingAmenitiesDF' = r.listingAmenitiesDF
    /\ pc' = "categorized"
    /\ UNCHANGED <<listingsFile, listingsData, locationsDF,
                   locationsNeighborhoodMap, hostsDF, listingsCIDMap, error,
                   saved, factVars, textVars, classVars, silverVars, driverVars>>

ProcessLocations ==
    /\ pc \in {"cleaned", "categorized"}
    /\ LET r == process_locations(listingsData, listingsDF)
       IN  /\ listingsDF' = r.listingsDF
           /\ locationsDF' = r.locationsDF
           /\ locationsNeighborhoodMap' = r.locationsNeighborhoodMap
    /\ pc' = "located"
    /\ UNCHANGED <<listingsFile, listingsData, amenityDF, listingAmenitiesDF,
                   hostsDF, listingsCIDMap, error, saved, factVars, textVars, classVars, silverVars, driverVars>>

ProcessHosts ==
    /\ pc = "located"
    /\ LET r == process_hosts(listingsData, locationsNeighborhoodMap)
       IN  IF r.raised # NoError
           THEN /\ pc' = "raised"
                /\ error' = [stage |-> "process_hosts", exc |-> r.raised]
                /\ hostsDF' = hostsDF
           ELSE /\ pc' = "hosts"
                /\ error' = error
                /\ hostsDF' = r.value
    /\ UNCHANGED <<listingsFile, listingsData, listingsDF, amenityDF,
                   listingAmenitiesDF, locationsDF, locationsNeighborhoodMap,
                   listingsCIDMap, saved, factVars, textVars, classVars, silverVars, driverVars>>

FinalProcessListings ==
    /\ pc = "hosts"
    /\ LET r == final_process_listings(listingsDF, hostsDF, locationsNeighborhoodMap)
       IN  IF r.raised # NoError
           THEN /\ pc' = "raised"
                /\ error' = [stage |-> "final_process_listings", exc |-> r.raised]
                /\ listingsDF' = listingsDF
           ELSE /\ pc' = "finalized"
                /\ error' = error
                /\ listingsDF' = r.value
    /\ UNCHANGED <<listingsFile, listingsData, amenityDF, listingAmenitiesDF,
                   locationsDF, locationsNeighborhoodMap, hostsDF,
                   listingsCIDMap, saved, factVars, textVars, classVars, silverVars, driverVars>>

PublishCIDMap ==
    /\ pc = "finalized"
    /\ listingsCIDMap' = build_listingsCIDMap(listingsDF)
    /\ pc' = "published"
    /\ UNCHANGED <<listingsFile, listingsData, listingsDF, amenityDF,
                   listingAmenitiesDF, locationsDF, locationsNeighborhoodMap,
                   hostsDF, error, saved, factVars, textVars, classVars, silverVars, driverVars>>

Next ==
    \/ Main
    \/ LoadListingsData
    \/ ProcessListings
    \/ ProcessAmenities
    \/ ProcessLocations
    \/ ProcessHosts
    \/ FinalProcessListings
    \/ PublishCIDMap

Spec == Init /\ [][Next]_vars

(***************************************************************************)
(* SpecAmenities: the listing stages on extracts whose amenities cells     *)
(* vary and whose host and location cells are fixed.                       *)
(***************************************************************************)
WifiTwice == <<"w", "i", "f", "i", ",", "w", "i", "f", "i">>
HotTubAndPoolTable ==
    <<"h", "o", "t", " ", "t", "u", "b", ",",
      "p", "o", "o", "l", " ", "t", "a", "b", "l", "e">>

AmenityCells == {NotAString, WifiTwice, HotTubAndPoolTable, SingleLetter}

RawAmenityRows ==
    [id : ListingIds, host_id : {"7"}, host_neighbourhood : {NaN},
     host_location : {NaN}, neighbourhood_cleansed : {NaN},
     amenities : AmenityCells]

AmenityFiles ==
    {NoFile} \cup
    {[readable |-> TRUE, rows |-> rows] :
        rows \in UNION {[1..n -> RawAmenityRows] : n \in 1..MaxRows}}

InitAmenities ==
    /\ pc = "start"
    /\ listingsFile \in AmenityFiles
    /\ listingsData = <<>> /\ listingsDF = <<>> /\ amenityDF = <<>>
    /\ listingAmenitiesDF = <<>> /\ locationsDF = <<>>
    /\ locationsNeighborhoodMap = <<>> /\ hostsDF = <<>>
    /\ listingsCIDMap = <<>> /\ error = Ok /\ saved = <<>>
    /\ IdleFacts /\ IdleText /\ IdleClass /\ IdleSilver /\ IdleDrivers

SpecAmenities == InitAmenities /\ [][Next]_vars

(***************************************************************************)
(* SpecLookup: process_hosts and final_process_listings called with a      *)
(* location lookup that may lack keys of the rows they are given.          *)
(***************************************************************************)
RawLookupRows ==
    [id : {1}, host_id : {"7"},
     host_neighbourhood : {NaN, <<"Allston">>}, host_location : {NaN},
     neighbourhood_cleansed : {NaN, <<"Allston">>},
     amenities : ListingAmenityTexts]

LookupFiles ==
    {[readable |-> TRUE, rows |-> rows] :
        rows \in UNION {[1..n -> RawLookupRows] : n \in 1..MaxRows}}

Restrict(map, keys) == [k \in keys |-> map[k]]

located_frames(file) ==
    process_locations(load_listings_data(file).value,
                      process_listings(load_listings_data(file).value))

InitLookup ==
    /\ pc = "located"
    /\ listingsFile \in LookupFiles
    /\ listingsData = load_listings_data(listingsFile).value
    /\ listingsDF = located_frames(listingsFile).listingsDF
    /\ locationsDF = located_frames(listingsFile).locationsDF
    /\ locationsNeighborhoodMap \in
           {Restrict(located_frames(listingsFile).locationsNeighborhoodMap, keys) :
               keys \in SUBSET DOMAIN located_frames(listingsFile).locationsNeighborhoodMap}
    /\ amenityDF = <<>> /\ listingAmenitiesDF = <<>> /\ hostsDF = <<>>
    /\ listingsCIDMap = <<>> /\ error = Ok /\ saved = <<>>
    /\ IdleFacts /\ IdleText /\ IdleClass /\ IdleSilver /\ IdleDrivers

NextLookup ==
    \/ ProcessHosts
    \/ FinalProcessListings
    \/ PublishCIDMap

SpecLookup == InitLookup /\ [][NextLookup]_vars

(***************************************************************************)
(* SpecSilver: dbsilverloader.load_silver_data.  The seven cleaned         *)
(* artifacts are read, then each table is truncated and appended to in     *)
(* the order of the code.  The silver schema is created outside the        *)
(* repository: TRUNCATE ... CASCADE reaches the tables that reference the  *)
(* truncated one, so the foreign keys are an input, either none or those   *)
(* of the relational model declared in dbcreator.py.                       *)
(***************************************************************************)
SilverTables ==
    {"locations", "hosts", "listings", "reviews", "amenities", "availability",
     "listing_amenities"}

\* the variant that loads the listings before the hosts
NextSilverTable_listings_before_hosts(t) ==
    CASE t = "locations" -> "listings"
      [] t = "listings" -> "hosts"
      [] t = "hosts" -> "reviews"
      [] t = "reviews" -> "amenities"
      [] t = "amenities" -> "availability"
      [] t = "availability" -> "listing_amenities"
      [] t = "listing_amenities" -> "returned"

\* the table handled after t by insert_data_to_table
NextSilverTable(t) ==
    CASE t = "locations" -> "hosts"
      [] t = "hosts" -> "listings"
      [] t = "listings" -> "reviews"
      [] t = "reviews" -> "amenities"
      [] t = "amenities" -> "availability"
      [] t = "availability" -> "listing_amenities"
      [] t = "listing_amenities" -> "returned"

\* <<child, parent>>: child has a foreign key to parent
SilverReferences ==
    {<<"hosts", "locations">>, <<"listings", "hosts">>, <<"listings", "locations">>,
     <<"reviews", "listings">>, <<"availability", "listings">>,
     <<"listing_amenities", "listings">>, <<"listing_amenities", "amenities">>}

SilverSchemas == {{}, SilverReferences}

\* a row of the cleaned artifacts, and a row that only an earlier extract held
CurrentRow == "current"
PreviousRow == "previous"

CleanedArtifacts ==
    {[readable |-> FALSE, rows |-> <<>>],
     [readable |-> TRUE, rows |-> <<>>],
     [readable |-> TRUE, rows |-> <<CurrentRow>>]}

\* the tables are empty, or hold an earlier load of other rows or of the same rows
SilverBefore ==
    {[t \in SilverTables |-> <<>>], [t \in SilverTables |-> <<PreviousRow>>],
     [t \in SilverTables |-> <<CurrentRow>>]}

\* dbsilverloader.read_data: an unreadable file yields an empty frame
silver_read_data(artifact) ==
    IF artifact.readable THEN artifact.rows ELSE <<>>

Referencing(S, refs) == S \cup {r[1] : r \in {q \in refs : q[2] \in S}}

RECURSIVE truncate_cascade(_, _)
truncate_cascade(S, refs) ==
    IF Referencing(S, refs) = S THEN S ELSE truncate_cascade(Referencing(S, refs), refs)

truncate_table(tables, t, refs) ==
    [u \in SilverTables |->
        IF u \in truncate_cascade({t}, refs) THEN <<>> ELSE tables[u]]

\* an appended row whose parent row is absent violates the foreign key
violates_foreign_key(tables, t, rows, refs) ==
    \E r \in refs :
        /\ r[1] = t
        /\ \E i \in DOMAIN rows : rows[i] \notin Range(tables[r[2]])

InitSilver ==
    /\ IdleListing /\ IdleFacts /\ IdleText /\ IdleClass /\ IdleDrivers
    /\ spc = "start"
    /\ cleanedArtifacts \in [SilverTables -> CleanedArtifacts]
    /\ schemaReferences \in SilverSchemas
    /\ cleanedData = [t \in SilverTables |-> <<>>]
    /\ silver \in SilverBefore

ReadCleanedArtifacts ==
    /\ spc = "start"
    /\ cleanedData' = [t \in SilverTables |-> silver_read_data(cleanedArtifacts[t])]
    /\ spc' = "locations"
    /\ UNCHANGED <<cleanedArtifacts, schemaReferences, silver,
                   listingVars, factVars, textVars, classVars, driverVars>>

truncate_and_insert(t) ==
    /\ spc = t
    /\ IF cleanedData[t] = <<>>
       THEN silver' = silver /\ spc' = NextSilverTable(t)
       ELSE LET truncated == truncate_table(silver, t, schemaReferences)
            IN  IF violates_foreign_key(truncated, t, cleanedData[t], schemaReferences)
                THEN silver' = truncated /\ spc' = "raised"
                ELSE /\ silver' = [truncated EXCEPT ![t] = cleanedData[t]]
                     /\ spc' = NextSilverTable(t)
    /\ UNCHANGED <<cleanedArtifacts, schemaReferences, cleanedData,
                   listingVars, factVars, textVars, classVars, driverVars>>

InsertLocations == truncate_and_insert("locations")
InsertHosts == truncate_and_insert("hosts")
InsertListings == truncate_and_insert("listings")
InsertReviews == truncate_and_insert("reviews")
InsertAmenities == truncate_and_insert("amenities")
InsertAvailability == truncate_and_insert("availability")
InsertListingAmenities == truncate_and_insert("listing_amenities")

NextSilver ==
    \/ ReadCleanedArtifacts
    \/ InsertLocations
    \/ InsertHosts
    \/ InsertListings
    \/ InsertReviews
    \/ InsertAmenities
    \/ InsertAvailability
    \/ InsertListingAmenities

SpecSilver == InitSilver /\ [][NextSilver]_vars

(***************************************************************************)
(* SpecRetry and SpecPipeline: etlpipeline.run_with_retry, called on its   *)
(* own and from run_etl_pipeline.  A task is a callable that returns or    *)
(* raises; events records the calls, sleeps and pipeline log lines in the  *)
(* order they happen.                                                      *)
(***************************************************************************)
DefaultDelay == 5
PipelineRetries == 1
PipelineDelay == 10

EtlTasks ==
    <<"datascraper", "datapreprocessor", "dbbronzeloader", "dbsilverloader",
      "dbgoldrefresh">>

Event(kind, task, n, raised, secs) ==
    [kind |-> kind, task |-> task, attempt |-> n, raised |-> raised, delay |-> secs]

InitRetry ==
    /\ IdleListing /\ IdleFacts /\ IdleText /\ IdleClass /\ IdleSilver
    /\ IdleFetch /\ IdlePage
    /\ epc = "try"
    /\ tasks = <<"taskfunction">> /\ taskIndex = 1
    /\ attempt = 1
    /\ retries \in 0..MaxRetries
    /\ delay \in {DefaultDelay, PipelineDelay}
    /\ events = <<>>

\* the variant that stops retrying one attempt early
HandleException_off_by_one ==
    /\ epc = "except"
    /\ IF attempt < retries
       THEN /\ events' = Append(events, Event("sleep", tasks[taskIndex], attempt, FALSE, delay))
            /\ attempt' = attempt + 1
            /\ epc' = "try"
       ELSE /\ events' = events
            /\ attempt' = attempt
            /\ epc' = "raised"
    /\ UNCHANGED <<tasks, taskIndex, retries, delay,
                   listingVars, factVars, textVars, classVars, silverVars,
                   fetchVars, pageVars>>

\* run_with_retry, lines 34-37: the try block of one loop pass
InvokeTask ==
    /\ epc = "try"
    /\ attempt \in 1..(retries + 1)
    /\ \E raised \in BOOLEAN :
          /\ events' = Append(events, Event("call", tasks[taskIndex], attempt, raised, 0))
          /\ epc' = IF raised THEN "except" ELSE "returned"
    /\ UNCHANGED <<tasks, taskIndex, attempt, retries, delay,
                   listingVars, factVars, textVars, classVars, silverVars,
                   fetchVars, pageVars>>

\* run_with_retry, lines 38-47: the except block of the same pass
HandleException ==
    /\ epc = "except"
    /\ IF attempt <= retries
       THEN /\ events' = Append(events, Event("sleep", tasks[taskIndex], attempt, FALSE, delay))
            /\ attempt' = attempt + 1
            /\ epc' = "try"
       ELSE /\ events' = events
            /\ attempt' = attempt
            /\ epc' = "raised"
    /\ UNCHANGED <<tasks, taskIndex, retries, delay,
                   listingVars, factVars, textVars, classVars, silverVars,
                   fetchVars, pageVars>>

NextRetry == InvokeTask \/ HandleException

SpecRetry == InitRetry /\ [][NextRetry]_vars

InitPipeline ==
    /\ IdleListing /\ IdleFacts /\ IdleText /\ IdleClass /\ IdleSilver
    /\ IdleFetch /\ IdlePage
    /\ epc = "start"
    /\ tasks = EtlTasks /\ taskIndex = 0
    /\ attempt = 0 /\ retries = 0 /\ delay = 0
    /\ events = <<>>

\* the variant that goes on to the next task after a task has raised
RunTask_after_failure ==
    /\ epc \in {"start", "returned", "raised"}
    /\ taskIndex < Len(tasks)
    /\ taskIndex' = taskIndex + 1
    /\ events' = Append(events, Event("running", tasks[taskIndex + 1], 0, FALSE, 0))
    /\ retries' = PipelineRetries
    /\ delay' = PipelineDelay
    /\ attempt' = 1
    /\ epc' = "try"
    /\ UNCHANGED <<tasks, listingVars, factVars, textVars, classVars, silverVars,
                   fetchVars, pageVars>>

\* run_etl_pipeline, lines 70-72: the next task is handed to run_with_retry
RunTask ==
    /\ epc \in {"start", "returned"}
    /\ taskIndex < Len(tasks)
    /\ taskIndex' = taskIndex + 1
    /\ events' = Append(events, Event("running", tasks[taskIndex + 1], 0, FALSE, 0))
    /\ retries' = PipelineRetries
    /\ delay' = PipelineDelay
    /\ attempt' = 1
    /\ epc' = "try"
    /\ UNCHANGED <<tasks, listingVars, factVars, textVars, classVars, silverVars,
                   fetchVars, pageVars>>

\* run_etl_pipeline, line 74
CompletePipeline ==
    /\ epc = "returned"
    /\ taskIndex = Len(tasks)
    /\ events' = Append(events, Event("completed", "", 0, FALSE, 0))
    /\ epc' = "completed"
    /\ UNCHANGED <<tasks, taskIndex, attempt, retries, delay,
                   listingVars, factVars, textVars, classVars, silverVars,
                   fetchVars, pageVars>>

NextPipeline ==
    \/ RunTask
    \/ InvokeTask
    \/ HandleException
    \/ CompletePipeline

SpecPipeline == InitPipeline /\ [][NextPipeline]_vars

(***************************************************************************)
(* SpecFetch: datascraper.fetch_html.  One loop pass fetches the page and, *)
(* when the response is usable and parses, downloads the data files; the   *)
(* pass then backs off or logs that the retries are used up.               *)
(***************************************************************************)
BackoffFactors == {1, 2}

InitFetch ==
    /\ IdleListing /\ IdleFacts /\ IdleText /\ IdleClass /\ IdleSilver
    /\ IdleOrch /\ IdlePage
    /\ hpc = "loop"
    /\ fetchAttempt = 1
    /\ max_retries \in 0..MaxFetchRetries
    /\ backoff_factor \in BackoffFactors
    /\ fetchLog = <<>>

\* fetch_html, lines 30-70: one pass of the loop; failed is TRUE when the
\* request raised, the response was not usable or the page did not parse
FetchAttempt ==
    /\ hpc = "loop"
    /\ fetchAttempt \in 1..max_retries
    /\ \E failed \in BOOLEAN :
          fetchLog' =
              fetchLog \o
              << Event("fetch", "url", fetchAttempt, failed, 0),
                 IF fetchAttempt < max_retries
                 THEN Event("sleep", "url", fetchAttempt, FALSE,
                            backoff_factor * 2 ^ (fetchAttempt - 1))
                 ELSE Event("max_retries_exceeded", "url", fetchAttempt, FALSE, 0) >>
    /\ fetchAttempt' = fetchAttempt + 1
    /\ UNCHANGED <<hpc, max_retries, backoff_factor,
                   listingVars, factVars, textVars, classVars, silverVars,
                   orchVars, pageVars>>

\* fetch_html: the loop is exhausted and the function returns None
FetchReturn ==
    /\ hpc = "loop"
    /\ fetchAttempt > max_retries
    /\ hpc' = "returned"
    /\ UNCHANGED <<fetchAttempt, max_retries, backoff_factor, fetchLog,
                   listingVars, factVars, textVars, classVars, silverVars,
                   orchVars, pageVars>>

NextFetch == FetchAttempt \/ FetchReturn

SpecFetch == InitFetch /\ [][NextFetch]_vars

(***************************************************************************)
(* SpecPage: the step-by-step pipeline page, BostonBnBApp.py lines 38-82.  *)
(* Streamlit runs the script top to bottom on page load and on every       *)
(* click; st.button returns True in the run caused by a click on it; an    *)
(* exception raised by a step function ends that run.                      *)
(***************************************************************************)
StepFunctions == <<"scrape_data", "preprocess_data", "load_data">>
DoneFlags == <<"step1_done", "step2_done", "step3_done">>
StepButtons == <<"Run Data Scraper", "Run Data Preprocessor", "Run DB Loader">>
NoClick == "none"

\* lines 38-43
init_session_state(ss) ==
    [k \in Range(DoneFlags) |-> IF k \in DOMAIN ss THEN ss[k] ELSE FALSE]

called(r, n, raised) ==
    [r EXCEPT !.calls[StepFunctions[n]] =
                  [runs |-> @.runs + 1,
                   returned |-> IF raised THEN @.returned ELSE @.returned + 1],
              !.session_state[DoneFlags[n]] = IF raised THEN @ ELSE TRUE,
              !.aborted = raised]

\* the variant that offers the button of step n whatever step n-1 did
step_block_without_prerequisite(r, n, click, raises) ==
    IF r.aborted THEN r
    ELSE IF r.session_state[DoneFlags[n]] THEN r
    ELSE LET shown == [r EXCEPT !.buttons = @ \cup {StepButtons[n]}]
         IN  IF click = StepButtons[n] THEN called(shown, n, raises) ELSE shown

\* lines 48-56, 59-69 and 72-82: the expander of step n
step_block(r, n, click, raises) ==
    IF r.aborted THEN r
    ELSE IF n > 1 /\ ~r.session_state[DoneFlags[n - 1]] THEN r
    ELSE IF r.session_state[DoneFlags[n]] THEN r
    ELSE LET shown == [r EXCEPT !.buttons = @ \cup {StepButtons[n]}]
         IN  IF click = StepButtons[n] THEN called(shown, n, raises) ELSE shown

run_script(ss, done, click, raises) ==
    LET r0 == [session_state |-> init_session_state(ss), buttons |-> {},
               calls |-> done, aborted |-> FALSE]
        r1 == step_block(r0, 1, click, raises)
        r2 == step_block(r1, 2, click, raises)
    IN  step_block(r2, 3, click, raises)

InitPage ==
    /\ IdleListing /\ IdleFacts /\ IdleText /\ IdleClass /\ IdleSilver
    /\ IdleOrch /\ IdleFetch
    /\ session_state = <<>>
    /\ buttons = {}
    /\ calls = [f \in Range(StepFunctions) |-> [runs |-> 0, returned |-> 0]]
    /\ reruns = 0

\* one run of the script: the page load, or the rerun a click causes
RunScript ==
    /\ reruns < MaxReruns
    /\ \E click \in buttons \cup {NoClick}, raises \in BOOLEAN :
          LET r == run_script(session_state, calls, click, raises)
          IN  /\ session_state' = r.session_state
              /\ buttons' = r.buttons
              /\ calls' = r.calls
    /\ reruns' = reruns + 1
    /\ UNCHANGED <<listingVars, factVars, textVars, classVars, silverVars,
                   orchVars, fetchVars>>

NextPage == RunScript

SpecPage == InitPage /\ [][NextPage]_vars

(***************************************************************************)
(* SpecFacts: the two remapping stages applied to the map published from   *)
(* a final listing table.                                                  *)
(***************************************************************************)
ListingCids == {"1", "2"}

FinalListingRows ==
    [listing_cid : ListingCids, host_id : {HostIdBase}, location_id : {LocationIdBase},
     amenities : {<<"a">>}]

FinalListingTables ==
    {[i \in DOMAIN t |-> [listing_id |-> (i - 1) + ListingIdBase] @@ t[i]] :
        t \in UNION {[1..n -> FinalListingRows] : n \in 1..MaxRows}}

FactListingCells == {1, 2, NumNaN}
ReviewIds == {11, 12}
CalendarDates == {NaNDate, "2025-03-15"}

RawReviewRows == [id : ReviewIds, listing_id : FactListingCells]
RawCalendarRows == [listing_id : FactListingCells, date : CalendarDates]

ReviewFiles ==
    {NoFile} \cup
    {[readable |-> TRUE, rows |-> rows] :
        rows \in UNION {[1..n -> RawReviewRows] : n \in 1..MaxFactRows}}

CalendarFiles ==
    {NoFile} \cup
    {[readable |-> TRUE, rows |-> rows] :
        rows \in UNION {[1..n -> RawCalendarRows] : n \in 1..MaxFactRows}}

InitFacts ==
    /\ pc = "published"
    /\ listingsFile = NoFile /\ listingsData = <<>>
    /\ listingsDF \in FinalListingTables
    /\ amenityDF = <<>> /\ listingAmenitiesDF = <<>> /\ locationsDF = <<>>
    /\ locationsNeighborhoodMap = <<>> /\ hostsDF = <<>>
    /\ listingsCIDMap = build_listingsCIDMap(listingsDF)
    /\ error = Ok /\ saved = <<>>
    /\ fpc = {}
    /\ reviewsFile \in ReviewFiles
    /\ calendarFile \in CalendarFiles
    /\ reviewsDF = <<>> /\ calendarDF = <<>>
    /\ ferror = [reviews |-> NoError, calendar |-> NoError]
    /\ IdleText /\ IdleClass /\ IdleSilver /\ IdleDrivers

PreprocessReviews_consuming_map ==
    /\ pc = "published"
    /\ "reviews" \notin fpc
    /\ LET r == preprocess_reviews_data(reviewsFile, listingsCIDMap)
       IN  /\ ferror' = [ferror EXCEPT !.reviews = r.raised]
           /\ reviewsDF' = r.value
    /\ fpc' = fpc \cup {"reviews"}
    /\ listingsCIDMap' =
           Restrict(listingsCIDMap,
                    {k \in DOMAIN listingsCIDMap :
                        \A i \in DOMAIN reviewsFile.rows :
                            review_listing_cid(reviewsFile.rows, i) # k})
    /\ UNCHANGED <<reviewsFile, calendarFile, calendarDF, textVars, classVars, silverVars, driverVars,
                   pc, listingsFile, listingsData, listingsDF, amenityDF,
                   listingAmenitiesDF, locationsDF, locationsNeighborhoodMap,
                   hostsDF, error, saved>>

PreprocessReviews ==
    /\ pc = "published"
    /\ "reviews" \notin fpc
    /\ LET r == preprocess_reviews_data(reviewsFile, listingsCIDMap)
       IN  /\ ferror' = [ferror EXCEPT !.reviews = r.raised]
           /\ reviewsDF' = r.value
    /\ fpc' = fpc \cup {"reviews"}
    /\ UNCHANGED <<reviewsFile, calendarFile, calendarDF, listingVars, textVars, classVars, silverVars, driverVars>>

PreprocessCalendar ==
    /\ pc = "published"
    /\ "calendar" \notin fpc
    /\ LET r == preprocess_calendar_data(calendarFile, listingsCIDMap)
       IN  /\ ferror' = [ferror EXCEPT !.calendar = r.raised]
           /\ calendarDF' = r.value
    /\ fpc' = fpc \cup {"calendar"}
    /\ UNCHANGED <<reviewsFile, calendarFile, reviewsDF, listingVars, textVars, classVars, silverVars, driverVars>>

NextFacts == PreprocessReviews \/ PreprocessCalendar

SpecFacts == InitFacts /\ [][NextFacts]_vars

(***************************************************************************)
(* SpecRun: the listing stages followed by the two remapping stages, on a  *)
(* listings extract and a reviews extract read in the same run.            *)
(***************************************************************************)
RunListingRows ==
    [id : ListingIds, host_id : HostIdCells,
     host_neighbourhood : {NaN, <<"Allston">>}, host_location : {NaN},
     neighbourhood_cleansed : {<<"Allston">>},
     amenities : ListingAmenityTexts]

RunListingFiles ==
    {NoFile} \cup
    {[readable |-> TRUE, rows |-> rows] :
        rows \in UNION {[1..n -> RunListingRows] : n \in 1..MaxRows}}

InitRun ==
    /\ pc = "start"
    /\ listingsFile \in RunListingFiles
    /\ listingsData = <<>> /\ listingsDF = <<>> /\ amenityDF = <<>>
    /\ listingAmenitiesDF = <<>> /\ locationsDF = <<>>
    /\ locationsNeighborhoodMap = <<>> /\ hostsDF = <<>>
    /\ listingsCIDMap = <<>> /\ error = Ok /\ saved = <<>>
    /\ fpc = {}
    /\ reviewsFile \in ReviewFiles
    /\ calendarFile = NoFile
    /\ reviewsDF = <<>> /\ calendarDF = <<>>
    /\ ferror = [reviews |-> NoError, calendar |-> NoError]
    /\ IdleText /\ IdleClass /\ IdleSilver /\ IdleDrivers

NextRun == Next \/ NextFacts

SpecRun == InitRun /\ [][NextRun]_vars

(***************************************************************************)
(* Properties.                                                             *)
(***************************************************************************)
CalendarRows == calendarFile.rows
CalendarKey(i) == astype_str(CalendarRows[i].listing_id, column_is_float(CalendarRows))
CalendarKeyPresent(i) == CalendarKey(i) \in DOMAIN listingsCIDMap

\* C1: for a readable calendar extract and any published map,
\* preprocess_calendar_data returns without raising; the returned table has
\* no row for a calendar row whose natural key is absent from the map, and
\* one row for every calendar row whose key and date are present.
C1_CalendarDropsUnresolvedRows ==
    ("calendar" \in fpc /\ calendarFile.readable) =>
        /\ ferror.calendar = NoError
        /\ Len(calendarDF) =
               Cardinality({i \in DOMAIN CalendarRows :
                               CalendarKeyPresent(i) /\ CalendarRows[i].date # NaNDate})
        /\ \A k \in DOMAIN calendarDF :
               \E i \in DOMAIN CalendarRows :
                   /\ CalendarKeyPresent(i)
                   /\ calendarDF[k].listing_id = listingsCIDMap[CalendarKey(i)]
                   /\ calendarDF[k].date = CalendarRows[i].date

ReviewRows == reviewsFile.rows
ReviewKey(i) == astype_str(ReviewRows[i].listing_id, column_is_float(ReviewRows))
ReviewKeyPresent(i) == ReviewKey(i) \in DOMAIN listingsCIDMap

RawCids == {listingsData[i].id : i \in DOMAIN listingsData}
FirstRawIndex(cid) ==
    CHOOSE i \in DOMAIN listingsData :
        listingsData[i].id = cid /\ \A j \in 1..(i - 1) : listingsData[j].id # cid

\* C3: after final_process_listings the listing table has exactly one row per
\* distinct listing_cid of the raw extract, that row is the first occurrence
\* in extract order, and the published map sends the listing_cid to the
\* listing_id of the kept row.
C3_OneRowPerListingCid ==
    /\ pc \in {"finalized", "published"} =>
           \A cid \in RawCids :
               /\ Cardinality({i \in DOMAIN listingsDF : listingsDF[i].listing_cid = cid}) = 1
               /\ \A i \in DOMAIN listingsDF :
                      listingsDF[i].listing_cid = cid =>
                          listingsDF[i].listing_id = listingsData[FirstRawIndex(cid)].listing_id
    /\ pc = "published" =>
           \A cid \in RawCids :
               /\ cid \in DOMAIN listingsCIDMap
               /\ listingsCIDMap[cid] = listingsData[FirstRawIndex(cid)].listing_id

HasNonNumericHost == \E i \in DOMAIN listingsData : listingsData[i].host_id \notin NumericCells
NumericHostListingIds ==
    {listingsData[i].listing_id : i \in {j \in DOMAIN listingsData :
                                            listingsData[j].host_id \in NumericCells}}

\* C4: when a raw listing row has a natural host id that does not parse as a
\* number, process_hosts emits no host row for it, final_process_listings
\* returns without raising, and the final listing table holds exactly the
\* listings whose host id is numeric.
C4_NonNumericHostIsRowLevelDrop ==
    HasNonNumericHost =>
        /\ pc \in {"hosts", "finalized", "published"} =>
               \A h \in DOMAIN hostsDF : hostsDF[h].host_cid \in NumericCells
        /\ ~(pc = "raised" /\ error.stage = "final_process_listings")
        /\ pc \in {"finalized", "published"} =>
               {listingsDF[i].listing_id : i \in DOMAIN listingsDF} = NumericHostListingIds

ConstructedPairs ==
    Range(hostsSubset(listingsData)) \cup
    {[neighbourhood |-> listingsDF[i].neighbourhood_cleansed,
      location |-> listingsDF[i].location] : i \in DOMAIN listingsDF}
PairKey(p) == location_key(p.neighbourhood, p.location)

\* C5: the lookup map built by process_locations is total and injective over
\* the (neighborhood, location) pairs constructed from host rows and listing
\* rows after the fill policy: each pair resolves to the location_id of the
\* location row holding exactly that pair, and distinct pairs resolve to
\* distinct ids.
C5_LocationLookupTotalInjective ==
    pc \in {"located", "hosts"} =>
        /\ \A p \in ConstructedPairs :
               /\ PairKey(p) \in DOMAIN locationsNeighborhoodMap
               /\ \E l \in DOMAIN locationsDF :
                      /\ locationsDF[l].location_id = locationsNeighborhoodMap[PairKey(p)]
                      /\ locationsDF[l].neighborhood = p.neighbourhood
                      /\ locationsDF[l].location = p.location
        /\ \A p, q \in ConstructedPairs :
               p # q => locationsNeighborhoodMap[PairKey(p)] # locationsNeighborhoodMap[PairKey(q)]

LocationIds == {locationsDF[l].location_id : l \in DOMAIN locationsDF}
HostIds == {hostsDF[h].host_id : h \in DOMAIN hostsDF}

\* C6: every host_id of the final listing table is the host_id of a row of
\* the final host table, and every location_id of the final host table or of
\* the final listing table is the location_id of a row of the location table.
C6_ReferentialCompleteness ==
    /\ pc \in {"hosts", "finalized", "published"} =>
           \A h \in DOMAIN hostsDF : hostsDF[h].location_id \in LocationIds
    /\ pc \in {"finalized", "published"} =>
           \A i \in DOMAIN listingsDF :
               /\ listingsDF[i].host_id \in HostIds
               /\ listingsDF[i].location_id \in LocationIds

\* C6 witness: final_process_listings returned two listings of two different
\* hosts, with at least two rows in the location table.
C6_Witness ==
    /\ pc = "finalized"
    /\ Len(listingsDF) = 2
    /\ listingsDF[1].host_id # listingsDF[2].host_id
    /\ Len(hostsDF) = 2
    /\ Len(locationsDF) >= 2
    /\ listingsDF[1].location_id # hostsDF[1].location_id

\* C7: when the listings extract is missing or unreadable, the stage that
\* consumes it (load_listings_data) does not raise: it returns an empty table
\* and the remaining stages can run.
C7_FailSoftAtFileRead ==
    (~listingsFile.readable /\ pc \notin {"start", "main_raised", "main_done"}) =>
        /\ pc # "raised"
        /\ listingsData = EmptyFrame

IsListingTable(t) == \A i \in DOMAIN t : "listing_cid" \in DOMAIN t[i]
IsHostTable(t) == \A i \in DOMAIN t : "host_cid" \in DOMAIN t[i]
IsLocationTable(t) == \A i \in DOMAIN t : "neighborhood" \in DOMAIN t[i]
MainInputIsClean ==
    /\ listingsFile.readable
    /\ \A i \in DOMAIN listingsFile.rows : listingsFile.rows[i].host_id \in NumericCells

\* C8: when main has run on a readable extract whose host ids are numeric,
\* every artifact has been written and holds the table of its own entity:
\* cleaned_listings the final listing table, cleaned_hosts the final host
\* table, cleaned_locations the location table.
C8_ArtifactsHoldOwnEntity ==
    (pc \in {"main_raised", "main_done"} /\ MainInputIsClean) =>
        /\ pc = "main_done"
        /\ Len(saved.cleaned_listings) = Len(listingsFile.rows)
        /\ IsListingTable(saved.cleaned_listings)
        /\ IsHostTable(saved.cleaned_hosts)
        /\ IsLocationTable(saved.cleaned_locations)

IsBlankText(t) == \A i \in DOMAIN t : t[i] \in Whitespace
NormalizesToNothing(t) ==
    LET n == replace_and_with_comma(remove_punctuation(str_lower(t)))
    IN  \A i \in DOMAIN n : n[i] \notin WordChars

\* C9: clean_and_split_amenities never returns an empty sequence, and for an
\* input that is not a string, is blank, or normalizes to nothing (only
\* brackets, quotes, punctuation, commas, whitespace or the word "and") it
\* returns exactly the one-element sequence ["no amenities listed"].
C9_NeverEmptyResult ==
    tpc = "returned" =>
        /\ tokens # <<>>
        /\ (text = NotAString \/ IsBlankText(text) \/ NormalizesToNothing(text)) =>
               tokens = <<NoAmenitiesListed>>

Punctuation == {"[", "]", "\"", "!", "_"}
HasStandaloneAnd(t) == \E i \in DOMAIN t : IsAndAt(t, i)
SourceWordChars(t) ==
    SelectSeq(replace_and_with_comma(remove_punctuation(str_lower(t))),
              LAMBDA c : c \in WordChars)
TokenWordChars(ts) == SelectSeq(Concat(ts), LAMBDA c : c \in WordChars)

\* C10: for a string input every returned token is non-empty, lower-case,
\* without leading or trailing whitespace, and contains no comma, no bracket,
\* quote or other punctuation and no standalone word "and"; the tokens appear
\* in the order of the source text and duplicate tokens are kept.
C10_TokensAreClean ==
    (tpc = "returned" /\ text # NotAString) =>
        /\ \A k \in DOMAIN tokens :
               /\ tokens[k] # <<>>
               /\ \A i \in DOMAIN tokens[k] : tokens[k][i] \notin UpperLetters
               /\ tokens[k][1] \notin Whitespace
               /\ tokens[k][Len(tokens[k])] \notin Whitespace
               /\ \A i \in DOMAIN tokens[k] : tokens[k][i] # ","
               /\ \A i \in DOMAIN tokens[k] : tokens[k][i] \notin Punctuation
               /\ ~HasStandaloneAnd(tokens[k])
        /\ (tokens # <<NoAmenitiesListed>>) =>
               TokenWordChars(tokens) = SourceWordChars(text)

HasNonZeroVector ==
    amenityArg \in amenityCorpus /\ tfidf_analyze(amenityArg) # <<>>
CategoriesAboveThreshold ==
    LET v == fit_amenity_vectors(amenityCorpus)[amenityArg]
        c == fit_category_vectors(amenityCorpus)
    IN  {categoryLabels[i] : i \in
            {j \in DOMAIN categoryLabels :
                5 * dot_product(v, c[j]) > l2_norm(v) * l2_norm(c[j])}}

\* C11: match_amenity_to_category_tfidf returns a non-empty list without
\* repetition of category names of the taxonomy; when the token has a
\* non-zero vector and some category's similarity is strictly greater than
\* 0.2 the list holds exactly those categories, and in every other case (no
\* vector, all-zero vector, no category above the threshold) it is exactly
\* ["Miscellaneous"].
C11_ClassifierReturnsThresholdMatches ==
    cpc = "returned" =>
        /\ matches # <<>>
        /\ Range(matches) \subseteq Range(categoryLabels)
        /\ Cardinality(Range(matches)) = Len(matches)
        /\ IF HasNonZeroVector /\ CategoriesAboveThreshold # {}
           THEN Range(matches) = CategoriesAboveThreshold
           ELSE matches = <<"Miscellaneous">>

\* C11 witness: a token with a non-zero vector was classified into two
\* categories, neither of them the catch-all.
C11_Witness ==
    /\ cpc = "returned"
    /\ HasNonZeroVector
    /\ Len(matches) = 2
    /\ "Miscellaneous" \notin Range(matches)

\* C12: whatever other tokens the vectorizer was fitted on, the token
\* "no amenities listed" classifies to exactly ["No Amenities"].
C12_SentinelIsNoAmenitiesOnly ==
    (cpc = "returned" /\ amenityArg = NoAmenitiesListed
                      /\ NoAmenitiesListed \in amenityCorpus) =>
        matches = <<"No Amenities">>

BridgeCategories(listing_id) ==
    {amenityDF[a].amenity_name : a \in
        {b \in DOMAIN amenityDF :
            \E r \in DOMAIN listingAmenitiesDF :
                /\ listingAmenitiesDF[r].listing_id = listing_id
                /\ listingAmenitiesDF[r].amenity_id = amenityDF[b].amenity_id}}
AllTokens == UNION {Range(listingsDF[i].amenities) : i \in DOMAIN listingsDF}
TokenCategories(token) ==
    Range(match_amenity_to_category_tfidf(fit_amenity_vectors(AllTokens), token,
                                          fit_category_vectors(AllTokens),
                                          categoryLabels))

\* C13: after process_amenities, for every listing the categories attached
\* to its listing_id in the bridge table are exactly the union, over the
\* listing's normalized tokens, of the categories the classifier returns
\* for each token.
C13_BridgeIsUnionOfTokenCategories ==
    pc = "categorized" =>
        \A i \in DOMAIN listingsDF :
            BridgeCategories(listingsDF[i].listing_id) =
                UNION {TokenCategories(listingsDF[i].amenities[k]) :
                          k \in DOMAIN listingsDF[i].amenities}

\* C13 witness: a listing with two distinct tokens that together reach at
\* least two categories has been categorized.
C13_Witness ==
    /\ pc = "categorized"
    /\ \E i \in DOMAIN listingsDF :
           /\ Len(listingsDF[i].amenities) = 2
           /\ listingsDF[i].amenities[1] # listingsDF[i].amenities[2]
           /\ TokenCategories(listingsDF[i].amenities[1]) #
                  TokenCategories(listingsDF[i].amenities[2])
           /\ Cardinality(BridgeCategories(listingsDF[i].listing_id)) >= 2

\* C14: the bridge table produced by process_amenities holds no
\* (listing_id, amenity_id) pair twice.
C14_BridgeHasNoDuplicatePair ==
    pc = "categorized" =>
        \A r, q \in DOMAIN listingAmenitiesDF :
            r # q => listingAmenitiesDF[r] # listingAmenitiesDF[q]

\* C14 witness: the categorized extract holds a listing whose token repeats
\* and a listing whose two distinct tokens share a category.
C14_Witness ==
    /\ pc = "categorized"
    /\ \E i \in DOMAIN listingsDF :
           /\ Len(listingsDF[i].amenities) = 2
           /\ listingsDF[i].amenities[1] = listingsDF[i].amenities[2]
    /\ \E i \in DOMAIN listingsDF :
           /\ Len(listingsDF[i].amenities) = 2
           /\ listingsDF[i].amenities[1] # listingsDF[i].amenities[2]
           /\ TokenCategories(listingsDF[i].amenities[1]) \cap
                  TokenCategories(listingsDF[i].amenities[2]) # {}

ClaimedHostFill(nb, loc) ==
    IF nb = NaN /\ loc = NaN
    THEN [neighbourhood |-> Unknown, location |-> Unknown]
    ELSE [neighbourhood |-> IF nb = NaN THEN NotSpecified ELSE nb,
          location |-> IF loc = NaN THEN BostonMA ELSE loc]

\* C15: host location fill policy.  For every host row of the extract the
\* location table built by process_locations holds the pair obtained by: both
\* "Unknown" when neighborhood and location are both missing; otherwise a
\* missing neighborhood filled with "Not Specified", a missing location
\* filled with "Boston, MA", and present values unchanged.
C15_HostLocationFillPolicy ==
    pc = "located" =>
        \A i \in DOMAIN listingsData :
            \E l \in DOMAIN locationsDF :
                /\ locationsDF[l].neighborhood =
                       ClaimedHostFill(listingsData[i].host_neighbourhood,
                                       listingsData[i].host_location).neighbourhood
                /\ locationsDF[l].location =
                       ClaimedHostFill(listingsData[i].host_neighbourhood,
                                       listingsData[i].host_location).location

HostLocationId(i) ==
    locationsNeighborhoodMap[
        location_key(fill_host_location(listingsData[i].host_neighbourhood,
                                        listingsData[i].host_location).neighbourhood,
                     fill_host_location(listingsData[i].host_neighbourhood,
                                        listingsData[i].host_location).location)]
SameHostAttributes(i, j) ==
    /\ listingsData[i].host_id = listingsData[j].host_id
    /\ listingsData[i].host_neighbourhood = listingsData[j].host_neighbourhood
    /\ listingsData[i].host_location = listingsData[j].host_location

\* C16: after process_hosts, raw host rows that are identical in every
\* attribute are represented by exactly one host row with one surrogate
\* host_id, host_ids are pairwise distinct, and calling process_hosts again
\* on the same input returns the same host table.
C16_HostDedupCollapsesAndIsIdempotent ==
    pc \in {"hosts", "finalized", "published"} =>
        /\ \A i \in DOMAIN listingsData :
               listingsData[i].host_id \in NumericCells =>
                   Cardinality({h \in DOMAIN hostsDF :
                                   /\ hostsDF[h].host_cid = listingsData[i].host_id
                                   /\ hostsDF[h].location_id = HostLocationId(i)}) = 1
        /\ \A h, g \in DOMAIN hostsDF :
               h # g => hostsDF[h].host_id # hostsDF[g].host_id
        /\ process_hosts(listingsData, locationsNeighborhoodMap) = Return(hostsDF)

\* C16 witness: process_hosts returned one host row for an extract of two
\* rows with identical host attributes.
C16_Witness ==
    /\ pc = "hosts"
    /\ Len(listingsData) = 2
    /\ SameHostAttributes(1, 2)
    /\ listingsData[1].host_id \in NumericCells
    /\ Len(hostsDF) = 1

HostKeyAbsent ==
    \E i \in DOMAIN listingsData :
        location_key(fill_host_location(listingsData[i].host_neighbourhood,
                                        listingsData[i].host_location).neighbourhood,
                     fill_host_location(listingsData[i].host_neighbourhood,
                                        listingsData[i].host_location).location)
            \notin DOMAIN locationsNeighborhoodMap
ListingKeyAbsent ==
    \E i \in DOMAIN listingsDF :
        location_key(listingsDF[i].neighbourhood_cleansed, listingsDF[i].location)
            \notin DOMAIN locationsNeighborhoodMap

\* C17: a call of process_hosts or final_process_listings with a lookup that
\* lacks the (neighborhood, location) key of one of its rows raises and
\* returns no table; no call changes the location table or the lookup, so no
\* location row or location_id is invented.
C17_AbsentLocationKeyAbortsCall ==
    [][/\ locationsDF' = locationsDF
       /\ locationsNeighborhoodMap' = locationsNeighborhoodMap
       /\ (pc = "located" /\ HostKeyAbsent) =>
              (pc' = "raised" /\ error'.exc = "KeyError" /\ hostsDF' = hostsDF)
       /\ (pc = "hosts" /\ ListingKeyAbsent) =>
              (pc' = "raised" /\ error'.exc = "KeyError" /\ listingsDF' = listingsDF)]_vars

\* C17 witness: process_hosts found all its keys and returned, and
\* final_process_listings raised KeyError on a listing key the lookup lacks.
C17_Witness ==
    /\ pc = "raised"
    /\ error = [stage |-> "final_process_listings", exc |-> "KeyError"]
    /\ hostsDF # <<>>
    /\ ListingKeyAbsent

PublishedMap == build_listingsCIDMap(listingsDF)

\* C18: once published, the listing natural-key -> surrogate-key map is never
\* modified: no call of preprocess_reviews_data or preprocess_calendar_data
\* changes it, so whichever runs first, each fact table is the result of
\* remapping its extract against the map as it was published.
C18_PublishedMapIsImmutable ==
    /\ [][listingsCIDMap' = listingsCIDMap]_vars
    /\ [](/\ listingsCIDMap = PublishedMap
          /\ "reviews" \in fpc =>
                 /\ reviewsDF = preprocess_reviews_data(reviewsFile, PublishedMap).value
                 /\ ferror.reviews = preprocess_reviews_data(reviewsFile, PublishedMap).raised
          /\ "calendar" \in fpc =>
                 /\ calendarDF = preprocess_calendar_data(calendarFile, PublishedMap).value
                 /\ ferror.calendar = preprocess_calendar_data(calendarFile, PublishedMap).raised)

\* C18 witness: both remapping stages have run on readable extracts and
\* both returned rows.
C18_Witness ==
    /\ fpc = {"reviews", "calendar"}
    /\ Len(reviewsDF) >= 1
    /\ Len(calendarDF) >= 1
    /\ listingsCIDMap # <<>>

CleanedAgain == process_listings(listingsData)
AmenitiesRan == amenityDF # <<>>
AmenitiesAgain(ord) == process_amenities(CleanedAgain, ord)
TablesAgain(ord) ==
    process_hosts_and_locations(listingsData,
        IF AmenitiesRan THEN AmenitiesAgain(ord).listingsDF ELSE CleanedAgain)
SameOutcomeAsRun(again) ==
    /\ (pc = "raised" /\ error.stage \in {"process_hosts", "final_process_listings"}) =>
           again.raised = error.exc
    /\ pc \in {"finalized", "published"} =>
           /\ again.raised = NoError
           /\ again.value[1] = listingsDF
           /\ again.value[2] = hostsDF
           /\ again.value[3] = locationsDF
    /\ pc = "published" => again.value[4] = listingsCIDMap

\* C19: determinism.  A second run on the same extract, with any other
\* iteration order of the sets the code builds, raises exactly when this run
\* raised and otherwise produces the same tables: the same amenity table and
\* the same set of bridge pairs, the same location, host and final listing
\* tables with the same surrogate keys, and the same published map.
C19_RunsAreDeterministic ==
    /\ (pc = "raised" /\ error.stage = "load_listings_data") =>
           load_listings_data(listingsFile).raised = error.exc
    /\ pc = "main_raised" =>
           \A ord \in MainCategoryOrders :
               main(listingsFile, reviewsFile, calendarFile, ord).raised = error.exc
    /\ pc \in {"categorized", "located", "hosts", "finalized", "published", "raised"}
       /\ listingsData # <<>> =>
           \A ord \in CategoryOrders(CleanedAgain) :
               /\ AmenitiesRan =>
                      /\ AmenitiesAgain(ord).amenityDF = amenityDF
                      /\ Range(AmenitiesAgain(ord).listingAmenitiesDF) =
                             Range(listingAmenitiesDF)
               /\ SameOutcomeAsRun(TablesAgain(ord))

\* C19 witness: process_amenities ran on an extract for which the per-listing
\* category sets have more than one iteration order, and the later stages
\* produced the location and host tables.
C19_Witness ==
    /\ pc = "hosts"
    /\ AmenitiesRan
    /\ Cardinality(CategoryOrders(CleanedAgain)) >= 2
    /\ Len(hostsDF) >= 1
    /\ Len(listingAmenitiesDF) >= 3

\* C20: once load_silver_data has returned, every silver table holds exactly
\* the rows of its cleaned artifact (no rows when the artifact is empty or
\* unreadable), whatever it held before.
C20_SilverTablesMirrorArtifacts ==
    spc = "returned" =>
        \A t \in SilverTables : silver[t] = silver_read_data(cleanedArtifacts[t])

CallIndexes == {i \in DOMAIN events : events[i].kind = "call"}
SleepIndexes == {i \in DOMAIN events : events[i].kind = "sleep"}
AllCallsRaised == \A i \in CallIndexes : events[i].raised

\* C21: run_with_retry invokes the task at most retries + 1 times; an
\* invocation that does not raise is the last thing that happens (no further
\* invocation, no sleep); every sleep directly follows a failed invocation and
\* is followed by the next invocation; the exception is re-raised exactly when
\* retries + 1 invocations have all raised.
C21_RetryProtocol ==
    /\ Cardinality(CallIndexes) <= retries + 1
    /\ \A i \in CallIndexes :
           ~events[i].raised => i = Len(events) /\ epc = "returned"
    /\ \A i \in SleepIndexes :
           /\ i > 1 /\ events[i - 1].kind = "call" /\ events[i - 1].raised
           /\ events[i].delay = delay
           /\ IF i < Len(events) THEN events[i + 1].kind = "call" ELSE epc = "try"
    /\ (epc = "raised") <=>
           /\ Cardinality(CallIndexes) = retries + 1
           /\ AllCallsRaised
           /\ epc # "except"

\* C21 witness: the task raised on the first attempt and on both retries,
\* with a sleep after each of the first two, and the exception was re-raised.
C21_Witness ==
    /\ epc = "raised"
    /\ retries = 2
    /\ Cardinality(CallIndexes) = 3
    /\ Cardinality(SleepIndexes) = 2

TaskPosition(t) == CHOOSE k \in DOMAIN EtlTasks : EtlTasks[k] = t
ReturnedBefore(k, i) ==
    \E j \in CallIndexes :
        /\ j < i
        /\ events[j].task = EtlTasks[k]
        /\ ~events[j].raised
        /\ events[j].attempt \in {1, 2}
RaisedTwice(k) ==
    \E i, j \in CallIndexes :
        /\ i < j
        /\ events[i].task = EtlTasks[k] /\ events[i].raised /\ events[i].attempt = 1
        /\ events[j].task = EtlTasks[k] /\ events[j].raised /\ events[j].attempt = 2
CompletionLogged == \E i \in DOMAIN events : events[i].kind = "completed"

\* C22: run_etl_pipeline calls the five tasks in the order scraper,
\* preprocessor, bronze loader, silver loader, gold refresh; a task is called
\* only after every earlier task has returned on its first or second attempt;
\* once a task has raised on both attempts the pipeline is aborted with that
\* exception: no later task is called and the completion message is not
\* logged, which takes all five tasks to have returned.
C22_PipelineOrderAndAbort ==
    /\ \A i \in CallIndexes :
           /\ events[i].attempt \in {1, 2}
           /\ \A k \in 1..(TaskPosition(events[i].task) - 1) : ReturnedBefore(k, i)
    /\ \A k \in DOMAIN EtlTasks :
           RaisedTwice(k) =>
               /\ epc \in {"except", "raised"}
               /\ taskIndex = k
               /\ ~CompletionLogged
               /\ \A i \in CallIndexes : TaskPosition(events[i].task) <= k
    /\ epc = "raised" => RaisedTwice(taskIndex)
    /\ CompletionLogged =>
           /\ epc = "completed"
           /\ \A k \in DOMAIN EtlTasks : ReturnedBefore(k, Len(events))

\* C22 witness: the scraper returned on its retry, the preprocessor returned,
\* and the bronze loader raised twice, which aborted the pipeline.
C22_Witness ==
    /\ epc = "raised"
    /\ taskIndex = 3
    /\ \E i \in CallIndexes :
           events[i].task = "datascraper" /\ events[i].attempt = 2 /\ ~events[i].raised

FetchIndexes == {i \in DOMAIN fetchLog : fetchLog[i].kind = "fetch"}
FetchedPage(i) == i \in FetchIndexes /\ ~fetchLog[i].raised

\* C23: fetch_html makes at most max_retries attempts; it waits
\* backoff_factor * 2^(attempt-1) seconds, and only before a retry; after an
\* attempt that fetched and parsed the page there is no further attempt, so
\* the data files are downloaded at most once per call; "Max retries
\* exceeded" is logged only when every attempt failed.
C23_FetchStopsAfterSuccess ==
    /\ Cardinality(FetchIndexes) <= max_retries
    /\ \A i \in DOMAIN fetchLog :
           fetchLog[i].kind = "sleep" =>
               /\ fetchLog[i].delay = backoff_factor * 2 ^ (fetchLog[i].attempt - 1)
               /\ i > 1 /\ fetchLog[i - 1].kind = "fetch" /\ fetchLog[i - 1].raised
    /\ \A i \in FetchIndexes :
           FetchedPage(i) => \A j \in FetchIndexes : j <= i
    /\ Cardinality({i \in FetchIndexes : FetchedPage(i)}) <= 1
    /\ \A i \in DOMAIN fetchLog :
           fetchLog[i].kind = "max_retries_exceeded" =>
               \A j \in FetchIndexes : fetchLog[j].raised

Initialised == DOMAIN session_state = Range(DoneFlags)
Done(n) == Initialised /\ session_state[DoneFlags[n]]
Runs(n) == calls[StepFunctions[n]].runs
Returned(n) == calls[StepFunctions[n]].returned
StepsAreOrdered == (Done(3) => Done(2)) /\ (Done(2) => Done(1))
DoneMeansReturned == \A n \in 1..3 : Done(n) <=> Returned(n) = 1
StepStartedInOrder ==
    \A n \in 1..3 :
        calls'[StepFunctions[n]].runs > Runs(n) =>
            /\ calls'[StepFunctions[n]].runs = Runs(n) + 1
            /\ ~Done(n)
            /\ n > 1 => Done(n - 1)
DoneIsStable ==
    \A n \in 1..3 : Done(n) => session_state'[DoneFlags[n]]

\* C24 as stated: the done flags are ordered, a step is started only when the
\* step before it is done, a flag is set only by a call that returned and is
\* never reset, and each step function runs at most once per session.
C24_StepsRunAtMostOnce ==
    /\ [](StepsAreOrdered /\ DoneMeansReturned)
    /\ [][StepStartedInOrder /\ DoneIsStable]_vars
    /\ [](\A n \in 1..3 : Runs(n) <= 1)

\* C24 as amended: the same, with "runs at most once" replaced by: a step
\* function is run only while its done flag is False and returns without
\* raising at most once per session.
C24_StepsReturnAtMostOnce ==
    /\ [](StepsAreOrdered /\ DoneMeansReturned)
    /\ [][StepStartedInOrder /\ DoneIsStable]_vars
    /\ [](\A n \in 1..3 : Returned(n) <= 1)

\* C24 witness: all three steps are done, and the preprocessor raised once
\* before the run in which it returned.
C24_Witness ==
    /\ Done(1) /\ Done(2) /\ Done(3)
    /\ Runs(2) = 2
    /\ Returned(2) = 1

EnumeratedFrom(ids, base) ==
    /\ \A i \in DOMAIN ids : ids[i] = base + (i - 1)
    /\ {ids[i] : i \in DOMAIN ids} = base..(base + Len(ids) - 1)
DistinctHostRows ==
    {<<hostsDF[h].host_cid, hostsDF[h].location_id>> : h \in DOMAIN hostsDF}
ResolvedReviews ==
    {<<ToString(ReviewRows[i].id), listingsCIDMap[ReviewKey(i)]>> :
        i \in {j \in DOMAIN ReviewRows : ReviewKeyPresent(j)}}

\* C25: surrogate keys assigned by enumeration are unique and contiguous from
\* the base: host_id is 1000..1000+H-1 over the H deduplicated host rows,
\* listing_id is 1000..1000+L-1 over the L rows of the raw extract, and
\* review_id is 1000..1000+R-1 over the R review rows left after the rows with
\* an unresolved listing and the exact duplicates have been dropped.
C25_KeysAreContiguousFromBase ==
    /\ pc \in {"hosts", "finalized", "published"} =>
           /\ EnumeratedFrom([h \in DOMAIN hostsDF |-> hostsDF[h].host_id], 1000)
           /\ Len(hostsDF) = Cardinality(DistinctHostRows)
    /\ pc \in {"loaded", "cleaned", "categorized", "located", "hosts", "finalized",
               "published"} =>
           /\ EnumeratedFrom([i \in DOMAIN listingsData |-> listingsData[i].listing_id], 1000)
           /\ Len(listingsData) = Len(listingsFile.rows)
    /\ ("reviews" \in fpc /\ ferror.reviews = NoError) =>
           /\ EnumeratedFrom([k \in DOMAIN reviewsDF |-> reviewsDF[k].review_id], 1000)
           /\ Len(reviewsDF) = Cardinality(ResolvedReviews)

\* C25 witness: two listings of one host, and two source reviews of which one
\* is left after the drops.
C25_Witness ==
    /\ pc = "published"
    /\ "reviews" \in fpc
    /\ Len(listingsData) = 2
    /\ Len(hostsDF) = 1
    /\ Len(reviewsFile.rows) = 2
    /\ Len(reviewsDF) = 1

ListingIdsAssigned == {listingsData[i].listing_id : i \in DOMAIN listingsData}
ReviewIdsAssigned == {reviewsDF[k].review_id : k \in DOMAIN reviewsDF}
AmenityIdsAssigned == {amenityDF[a].amenity_id : a \in DOMAIN amenityDF}

\* C26: within one run no host_id is also a listing_id, a review_id, a
\* location_id or an amenity_id.
C26_HostKeysCollideWithNoOtherKeys ==
    pc \in {"hosts", "finalized", "published"} =>
        HostIds \cap (ListingIdsAssigned \cup ReviewIdsAssigned
                        \cup LocationIds \cup AmenityIdsAssigned) = {}

ListingStagesEnded ==
    \/ pc \in {"finalized", "published"}
    \/ pc = "raised" /\ error.stage = "final_process_listings"

\* C27: once the listing stages have ended, every amenity_id of the bridge
\* table is the id of a row of the amenity dimension, which has one row per
\* taxonomy category with ids 1..N in taxonomy order whatever the input, and
\* every listing_id of the bridge table is the listing_id of a row of the
\* final listing table.
C27_BridgeReferentialIntegrity ==
    (ListingStagesEnded /\ AmenitiesRan) =>
        /\ amenityDF = [k \in DOMAIN categoryLabels |->
                           [amenity_id |-> k, amenity_name |-> categoryLabels[k]]]
        /\ \A b \in DOMAIN listingAmenitiesDF :
               /\ listingAmenitiesDF[b].amenity_id \in AmenityIdsAssigned
               /\ pc \in {"finalized", "published"}
               /\ \E i \in DOMAIN listingsDF :
                      listingsDF[i].listing_id = listingAmenitiesDF[b].listing_id

\* C28: each natural key host_cid appears in at most one row of the host
\* table, so the host_cid -> host_id map of final_process_listings loses no
\* host row: every host row is referenced by a listing, and only by listings
\* of that host.
C28_HostNaturalKeyIsUnique ==
    /\ pc \in {"hosts", "finalized", "published"} =>
           \A h, g \in DOMAIN hostsDF :
               h # g => hostsDF[h].host_cid # hostsDF[g].host_cid
    /\ pc \in {"finalized", "published"} =>
           \A h \in DOMAIN hostsDF :
               /\ \E i \in DOMAIN listingsDF : listingsDF[i].host_id = hostsDF[h].host_id
               /\ \A i \in DOMAIN listingsDF :
                      listingsDF[i].host_id = hostsDF[h].host_id =>
                          \E j \in DOMAIN listingsData :
                              /\ listingsData[j].listing_id = listingsDF[i].listing_id
                              /\ listingsData[j].host_id = hostsDF[h].host_cid

RECURSIVE TablesFrom(_, _)
TablesFrom(t, stop) ==
    IF t = stop \/ t = "returned" THEN {}
    ELSE {t} \cup TablesFrom(NextSilverTable(t), stop)
LoadedBefore(t) == TablesFrom("locations", t)
InsertedBefore(t) == {u \in LoadedBefore(t) : cleanedData[u] # <<>>}

KeepsEarlierInserts ==
    spc \in SilverTables =>
        (\A u \in InsertedBefore(spc) : silver'[u] = silver[u])

\* C29: the loader handles every table after the tables it references
\* (locations, hosts, listings, then reviews and availability; amenities
\* before the bridge), so no step of a load, with its TRUNCATE ... CASCADE,
\* changes a table that an earlier step of the same load inserted into.
C29_LoadOrderIsParentBeforeChild ==
    /\ [](\A r \in SilverReferences : r[2] \in LoadedBefore(r[1]))
    /\ [][KeepsEarlierInserts]_vars

\* C29 witness: under the foreign keys of the relational model a load of
\* seven non-empty artifacts has returned with every table holding its rows.
C29_Witness ==
    /\ spc = "returned"
    /\ schemaReferences = SilverReferences
    /\ \A t \in SilverTables :
           cleanedData[t] = <<CurrentRow>> /\ silver[t] = <<CurrentRow>>

CategorySerializations(cats) ==
    {JoinChars(str_join(<<",">>, [k \in DOMAIN ord |-> <<ord[k]>>])) :
        ord \in Orderings(cats)}

\* C30: in the final listing table, the amenities column of each listing is
\* the delimited serialization of that listing's amenity category set, the
\* categories the classifier gives to its normalized tokens, in some order.
C30_AmenitiesColumnSerializesCategories ==
    pc \in {"finalized", "published"} =>
        \A i \in DOMAIN listingsDF :
            \E j \in DOMAIN CleanedAgain :
                /\ CleanedAgain[j].listing_id = listingsDF[i].listing_id
                /\ JoinChars(listingsDF[i].amenities) \in
                       CategorySerializations(listing_category_set(CleanedAgain, j))

====
